---- MODULE Spec2Model ----
(***************************************************************************)
(* Chess 39 rules engine (src/chess39-core): the Game aggregate, its move  *)
(* validation, check and game-over detection, as a state machine.          *)
(*                                                                         *)
(* A square is its two-character notation, held as the pair                *)
(* <<ord(letter), digit>>: "e4" is <<101, 4>>.  An occupant is None or a   *)
(* pair <<piece type, colour>>.  A piece type is the name of the enum      *)
(* member; Python makes BISHOP an alias of KNIGHT because both have the    *)
(* value 3 (pieces.py:13-15), which PieceType below reproduces.            *)
(***************************************************************************)
EXTENDS Integers, Sequences, FiniteSets, TLC

\* ------------------------------------------------------------------ bounds

\* Calls of make_move and resign explored from the position a behaviour starts in.
MaxCalls == 2

\* Passes of the while loop of generate_random_army that end in a retry.
MaxRetries == 2

\* ------------------------------------------------------------- pieces.py

\* Python's None: for an occupant, a square (en-passant target) and a piece type.
None == <<>>
NoneName == "None"

\* The members of the enum in definition order, with their values.
MemberNames == <<"PAWN", "KNIGHT", "BISHOP", "ROOK", "QUEEN", "KING">>
MemberValue == [PAWN |-> 1, KNIGHT |-> 3, BISHOP |-> 3, ROOK |-> 5, QUEEN |-> 9, KING |-> 0]

\* PieceType.<name>: enum.Enum makes a later name with an already used value an
\* alias of the first member defined with that value.
PieceType(name) ==
    LET first == CHOOSE i \in 1..Len(MemberNames) :
                    /\ MemberValue[MemberNames[i]] = MemberValue[name]
                    /\ \A j \in 1..(i - 1) : MemberValue[MemberNames[j]] # MemberValue[name]
    IN MemberNames[first]

PAWN == PieceType("PAWN")
KNIGHT == PieceType("KNIGHT")
BISHOP == PieceType("BISHOP")
ROOK == PieceType("ROOK")
QUEEN == PieceType("QUEEN")
KING == PieceType("KING")

KNIGHT_MOVES == {<<2, 1>>, <<2, -1>>, <<-2, 1>>, <<-2, -1>>,
                 <<1, 2>>, <<1, -2>>, <<-1, 2>>, <<-1, -2>>}

\* ---------------------------------------------------------------- squares

OrdA == 97
BoardSize == 8

Abs(x) == IF x < 0 THEN -x ELSE x

\* The keys of Board.grid: 'a1' .. 'h8'.
Squares == {<<f, r>> : f \in OrdA..(OrdA + BoardSize - 1), r \in 1..BoardSize}

_square_to_coords(square) == <<square[1] - OrdA, square[2] - 1>>
_coords_to_square(col, row) == <<col + OrdA, row + 1>>

\* dict.get: None for a key the grid does not hold.
GridGet(grid, sq) == IF sq \in DOMAIN grid THEN grid[sq] ELSE None

\* Board._create_empty_grid
EmptyGrid == [sq \in Squares |-> None]

Opponent(color) == IF color = "white" THEN "black" ELSE "white"

\* --------------------------------------------------- Game: move validation

RECURSIVE _is_valid_move(_, _, _, _, _)
RECURSIVE _is_square_attacked(_, _, _)
RECURSIVE is_in_check(_, _)

_is_path_clear(s, from_sq, to_sq) ==
    LET fc == _square_to_coords(from_sq)
        tc == _square_to_coords(to_sq)
        col_step == IF fc[1] = tc[1] THEN 0 ELSE IF tc[1] > fc[1] THEN 1 ELSE -1
        row_step == IF fc[2] = tc[2] THEN 0 ELSE IF tc[2] > fc[2] THEN 1 ELSE -1
        steps == IF Abs(tc[1] - fc[1]) > Abs(tc[2] - fc[2])
                 THEN Abs(tc[1] - fc[1]) ELSE Abs(tc[2] - fc[2])
    IN \A k \in 1..(steps - 1) :
          GridGet(s.grid, _coords_to_square(fc[1] + k * col_step, fc[2] + k * row_step)) = None

_is_valid_pawn_move(s, from_sq, to_sq, color) ==
    LET fc == _square_to_coords(from_sq)
        tc == _square_to_coords(to_sq)
        direction == IF color = "white" THEN 1 ELSE -1
        start_row == IF color = "white" THEN 1 ELSE 6
        dest_piece == GridGet(s.grid, to_sq)
    IN IF fc[1] = tc[1] /\ tc[2] = fc[2] + direction
       THEN dest_piece = None
       ELSE IF fc[1] = tc[1] /\ fc[2] = start_row /\ tc[2] = fc[2] + 2 * direction
       THEN /\ dest_piece = None
            /\ GridGet(s.grid, _coords_to_square(fc[1], fc[2] + direction)) = None
       ELSE /\ Abs(tc[1] - fc[1]) = 1
            /\ tc[2] = fc[2] + direction
            /\ \/ (dest_piece # None /\ dest_piece[2] # color)
               \/ to_sq = s.en_passant_target

_is_valid_knight_move(from_sq, to_sq) ==
    LET fc == _square_to_coords(from_sq)
        tc == _square_to_coords(to_sq)
    IN <<tc[1] - fc[1], tc[2] - fc[2]>> \in KNIGHT_MOVES

_is_valid_bishop_move(s, from_sq, to_sq) ==
    LET fc == _square_to_coords(from_sq)
        tc == _square_to_coords(to_sq)
        diff_col == Abs(tc[1] - fc[1])
        diff_row == Abs(tc[2] - fc[2])
    IN IF diff_col # diff_row \/ diff_col = 0
       THEN FALSE
       ELSE _is_path_clear(s, from_sq, to_sq)

_is_valid_rook_move(s, from_sq, to_sq) ==
    LET fc == _square_to_coords(from_sq)
        tc == _square_to_coords(to_sq)
    IN IF fc[1] # tc[1] /\ fc[2] # tc[2]
       THEN FALSE
       ELSE _is_path_clear(s, from_sq, to_sq)

_is_valid_queen_move(s, from_sq, to_sq) ==
    _is_valid_bishop_move(s, from_sq, to_sq) \/ _is_valid_rook_move(s, from_sq, to_sq)

\* range(a, b, step) for step = 1 or -1, as a set.
Range(a, b, step) == IF step > 0 THEN a..(b - 1) ELSE (b + 1)..a

_can_castle(s, from_sq, to_sq, color) ==
    LET fc == _square_to_coords(from_sq)
        tc == _square_to_coords(to_sq)
        side == IF tc[1] > fc[1] THEN "kingside" ELSE "queenside"
        rook_col == IF tc[1] > fc[1] THEN 7 ELSE 0
        step == IF tc[1] > fc[1] THEN 1 ELSE -1
    IN IF ~s.castling_rights[color][side]
       THEN FALSE
       ELSE IF is_in_check(s, color)
       THEN FALSE
       ELSE IF \E col \in Range(fc[1] + step, rook_col, step) :
                  GridGet(s.grid, _coords_to_square(col, fc[2])) # None
       THEN FALSE
       ELSE ~ \E col \in Range(fc[1], tc[1] + step, step) :
                  _is_square_attacked(s, _coords_to_square(col, fc[2]), Opponent(color))

_is_valid_king_move(s, from_sq, to_sq, color) ==
    LET fc == _square_to_coords(from_sq)
        tc == _square_to_coords(to_sq)
        diff_col == Abs(tc[1] - fc[1])
        diff_row == Abs(tc[2] - fc[2])
    IN IF diff_col <= 1 /\ diff_row <= 1
       THEN TRUE
       ELSE IF diff_col = 2 /\ diff_row = 0
       THEN _can_castle(s, from_sq, to_sq, color)
       ELSE FALSE

_is_valid_move(s, from_sq, to_sq, piece_type, piece_color) ==
    LET tc == _square_to_coords(to_sq)
        dest_piece == GridGet(s.grid, to_sq)
    IN IF from_sq = to_sq
       THEN FALSE
       ELSE IF ~(0 <= tc[1] /\ tc[1] < BoardSize /\ 0 <= tc[2] /\ tc[2] < BoardSize)
       THEN FALSE
       ELSE IF dest_piece # None /\ dest_piece[2] = piece_color
       THEN FALSE
       ELSE IF piece_type = PAWN THEN _is_valid_pawn_move(s, from_sq, to_sq, piece_color)
       ELSE IF piece_type = KNIGHT THEN _is_valid_knight_move(from_sq, to_sq)
       ELSE IF piece_type = BISHOP THEN _is_valid_bishop_move(s, from_sq, to_sq)
       ELSE IF piece_type = ROOK THEN _is_valid_rook_move(s, from_sq, to_sq)
       ELSE IF piece_type = QUEEN THEN _is_valid_queen_move(s, from_sq, to_sq)
       ELSE IF piece_type = KING THEN _is_valid_king_move(s, from_sq, to_sq, piece_color)
       ELSE FALSE

_is_square_attacked(s, square, by_color) ==
    \E from_sq \in Squares :
        /\ s.grid[from_sq] # None
        /\ s.grid[from_sq][2] = by_color
        /\ _is_valid_move(s, from_sq, square, s.grid[from_sq][1], by_color)

\* The grid is a dict filled a1, a2, .., a8, b1, ..: iteration meets the squares
\* in that order, which is the order of the pairs <<letter, digit>>.
Before(sq1, sq2) == sq1[1] < sq2[1] \/ (sq1[1] = sq2[1] /\ sq1[2] < sq2[2])

KingsOf(grid, color) == {sq \in Squares : grid[sq] # None /\ grid[sq] = <<KING, color>>}

is_in_check(s, color) ==
    LET kings == KingsOf(s.grid, color)
    IN IF kings = {}
       THEN FALSE
       ELSE LET king_square == CHOOSE k \in kings : \A o \in kings : o = k \/ Before(k, o)
            IN _is_square_attacked(s, king_square, Opponent(color))

\* ------------------------------------------------ Game: applying a move

\* A write-back that forgets the destination square.
_would_be_in_check_restoring_source_only(s, from_sq, to_sq, color) ==
    LET from_piece == s.grid[from_sq]
        moved == [s.grid EXCEPT ![to_sq] = from_piece, ![from_sq] = None]
        in_check == is_in_check([s EXCEPT !.grid = moved], color)
        restored == [moved EXCEPT ![from_sq] = from_piece]
    IN <<in_check, restored>>

\* The temporary move, the check test and the write-back: <<in_check, grid
\* after the write-back>>.
_would_be_in_check_after_move(s, from_sq, to_sq, color) ==
    LET from_piece == s.grid[from_sq]
        to_piece == GridGet(s.grid, to_sq)
        moved == [s.grid EXCEPT ![to_sq] = from_piece, ![from_sq] = None]
        in_check == is_in_check([s EXCEPT !.grid = moved], color)
        restored == [moved EXCEPT ![from_sq] = from_piece, ![to_sq] = to_piece]
    IN <<in_check, restored>>

\* The grid after the piece, promotion and castling-rook writes (lines 299-325).
ExecuteGrid(s, from_sq, to_sq, piece_type, piece_color, promotion_piece) ==
    LET fc == _square_to_coords(from_sq)
        tc == _square_to_coords(to_sq)
        g1 == [s.grid EXCEPT ![to_sq] = <<piece_type, piece_color>>, ![from_sq] = None]
        promo == IF promotion_piece # NoneName THEN promotion_piece ELSE QUEEN
        g2 == IF /\ piece_type = PAWN
                 /\ \/ (piece_color = "white" /\ tc[2] = 7)
                    \/ (piece_color = "black" /\ tc[2] = 0)
              THEN [g1 EXCEPT ![to_sq] = <<promo, piece_color>>]
              ELSE g1
        diff_col == tc[1] - fc[1]
        rook_from == IF diff_col > 0 THEN _coords_to_square(7, fc[2])
                                     ELSE _coords_to_square(0, fc[2])
        rook_to == IF diff_col > 0 THEN _coords_to_square(5, fc[2])
                                   ELSE _coords_to_square(3, fc[2])
    IN IF piece_type = KING /\ Abs(diff_col) = 2
       THEN [g2 EXCEPT ![rook_to] = g2[rook_from], ![rook_from] = None]
       ELSE g2

\* Rights that a king move leaves alone.
ExecuteRightsRooksOnly(s, from_sq, piece_type, piece_color) ==
    LET fc == _square_to_coords(from_sq)
    IN IF piece_type = ROOK /\ fc[1] = 0
       THEN [s.castling_rights EXCEPT ![piece_color]["queenside"] = FALSE]
       ELSE IF piece_type = ROOK /\ fc[1] = 7
       THEN [s.castling_rights EXCEPT ![piece_color]["kingside"] = FALSE]
       ELSE s.castling_rights

\* Lines 327-336.
ExecuteRights(s, from_sq, piece_type, piece_color) ==
    LET fc == _square_to_coords(from_sq)
    IN IF piece_type = KING
       THEN [s.castling_rights EXCEPT ![piece_color] = [kingside |-> FALSE, queenside |-> FALSE]]
       ELSE IF piece_type = ROOK /\ fc[1] = 0
       THEN [s.castling_rights EXCEPT ![piece_color]["queenside"] = FALSE]
       ELSE IF piece_type = ROOK /\ fc[1] = 7
       THEN [s.castling_rights EXCEPT ![piece_color]["kingside"] = FALSE]
       ELSE s.castling_rights

\* A target set behind any piece that goes two ranks.
ExecuteEnPassantAnyPiece(from_sq, to_sq, piece_type) ==
    LET fc == _square_to_coords(from_sq)
        tc == _square_to_coords(to_sq)
    IN IF Abs(tc[2] - fc[2]) = 2
       THEN _coords_to_square(fc[1], (fc[2] + tc[2]) \div 2)
       ELSE None

\* Lines 338-344.
ExecuteEnPassant(from_sq, to_sq, piece_type) ==
    LET fc == _square_to_coords(from_sq)
        tc == _square_to_coords(to_sq)
    IN IF piece_type = PAWN /\ Abs(tc[2] - fc[2]) = 2
       THEN _coords_to_square(fc[1], (fc[2] + tc[2]) \div 2)
       ELSE None

\* A clock that only a pawn move resets.
ExecuteClockPawnOnly(s, piece_type, captured_piece) ==
    IF piece_type = PAWN
    THEN 0
    ELSE s.halfmove_clock + 1

\* Lines 346-350.  An enum member is truthy whatever its value, the king's 0 too.
ExecuteClock(s, piece_type, captured_piece) ==
    IF piece_type = PAWN \/ captured_piece # NoneName
    THEN 0
    ELSE s.halfmove_clock + 1

\* <<game after the move, captured piece type or None>>
_execute_move(s, from_sq, to_sq, piece_type, piece_color, promotion_piece) ==
    LET dest_piece == GridGet(s.grid, to_sq)
        captured_piece == IF dest_piece # None THEN dest_piece[1] ELSE NoneName
    IN << [s EXCEPT
             !.grid = ExecuteGrid(s, from_sq, to_sq, piece_type, piece_color, promotion_piece),
             !.castling_rights = ExecuteRights(s, from_sq, piece_type, piece_color),
             !.en_passant_target = ExecuteEnPassant(from_sq, to_sq, piece_type),
             !.halfmove_clock = ExecuteClock(s, piece_type, captured_piece)],
          captured_piece >>

\* --------------------------------------------------------- Game: game over

\* The search of _check_game_over (lines 403-414).  Each probe writes the move
\* and writes it back, so the search leaves the grid as it found it.
has_legal_move(s, current_color) ==
    \E from_sq \in Squares :
        /\ s.grid[from_sq] # None
        /\ s.grid[from_sq][2] = current_color
        /\ \E to_sq \in Squares :
              /\ _is_valid_move(s, from_sq, to_sq, s.grid[from_sq][1], current_color)
              /\ ~_would_be_in_check_after_move(s, from_sq, to_sq, current_color)[1]

FiftyMoveLimit == 100

\* A game-over test in which mate and stalemate stand against the fifty-move rule.
_check_game_over_mate_first(s) ==
    LET current_color == s.current_turn
    IN IF ~has_legal_move(s, current_color)
       THEN IF is_in_check(s, current_color)
            THEN [s EXCEPT !.status = "checkmate", !.winner = Opponent(current_color)]
            ELSE [s EXCEPT !.status = "stalemate"]
       ELSE IF s.halfmove_clock >= FiftyMoveLimit
       THEN [s EXCEPT !.status = "draw"]
       ELSE s

\* A game-over test that draws one ply late.
_check_game_over_late_draw(s) ==
    LET current_color == s.current_turn
        s1 == IF ~has_legal_move(s, current_color)
              THEN IF is_in_check(s, current_color)
                   THEN [s EXCEPT !.status = "checkmate", !.winner = Opponent(current_color)]
                   ELSE [s EXCEPT !.status = "stalemate"]
              ELSE s
    IN IF s1.halfmove_clock > FiftyMoveLimit
       THEN [s1 EXCEPT !.status = "draw"]
       ELSE s1

_check_game_over(s) ==
    LET current_color == s.current_turn
        s1 == IF ~has_legal_move(s, current_color)
              THEN IF is_in_check(s, current_color)
                   THEN [s EXCEPT !.status = "checkmate", !.winner = Opponent(current_color)]
                   ELSE [s EXCEPT !.status = "stalemate"]
              ELSE s
    IN IF s1.halfmove_clock >= FiftyMoveLimit
       THEN [s1 EXCEPT !.status = "draw"]
       ELSE s1

\* ---------------------------------------------------------- Game: make_move

Failure(message) == [success |-> FALSE, message |-> message]

\* f'Game is {self.status}'
GameIs == [checkmate |-> "Game is checkmate", stalemate |-> "Game is stalemate",
           resignation |-> "Game is resignation", draw |-> "Game is draw"]

MoveRecord(from_sq, to_sq, piece_type, captured_piece, move_number) ==
    [from |-> from_sq, to |-> to_sq, piece |-> piece_type,
     captured |-> captured_piece, move_number |-> move_number]

\* An accepted move recorded after the turn and the move number were advanced.
AcceptMoveRecordedLate(s, from_sq, to_sq, piece_type, piece_color, promotion_piece) ==
    LET ex == _execute_move(s, from_sq, to_sq, piece_type, piece_color, promotion_piece)
        captured_piece == ex[2]
        s2 == [ex[1] EXCEPT !.current_turn = Opponent(ex[1].current_turn)]
        s3 == IF s2.current_turn = "white"
              THEN [s2 EXCEPT !.fullmove_number = @ + 1]
              ELSE s2
        s1 == [s3 EXCEPT !.move_history =
                  Append(@, MoveRecord(from_sq, to_sq, piece_type, captured_piece,
                                       s3.fullmove_number))]
        s4 == _check_game_over(s1)
    IN [game |-> s4,
        result |-> [success |-> TRUE, message |-> "Move successful",
                    captured |-> captured_piece,
                    is_check |-> is_in_check(s4, s4.current_turn),
                    status |-> s4.status]]

\* An accepted move after which the same side is to move.
AcceptMoveKeepingTurn(s, from_sq, to_sq, piece_type, piece_color, promotion_piece) ==
    LET ex == _execute_move(s, from_sq, to_sq, piece_type, piece_color, promotion_piece)
        captured_piece == ex[2]
        s1 == [ex[1] EXCEPT !.move_history =
                  Append(@, MoveRecord(from_sq, to_sq, piece_type, captured_piece,
                                       s.fullmove_number))]
        s3 == IF s1.current_turn = "black"
              THEN [s1 EXCEPT !.fullmove_number = @ + 1]
              ELSE s1
        s4 == _check_game_over(s3)
    IN [game |-> s4,
        result |-> [success |-> TRUE, message |-> "Move successful",
                    captured |-> captured_piece,
                    is_check |-> is_in_check(s4, s4.current_turn),
                    status |-> s4.status]]

\* An accepted move that counts a full move for either side.
AcceptMoveCountingEach(s, from_sq, to_sq, piece_type, piece_color, promotion_piece) ==
    LET ex == _execute_move(s, from_sq, to_sq, piece_type, piece_color, promotion_piece)
        captured_piece == ex[2]
        s1 == [ex[1] EXCEPT !.move_history =
                  Append(@, MoveRecord(from_sq, to_sq, piece_type, captured_piece,
                                       s.fullmove_number))]
        s2 == [s1 EXCEPT !.current_turn = Opponent(s1.current_turn)]
        s3 == [s2 EXCEPT !.fullmove_number = @ + 1]
        s4 == _check_game_over(s3)
    IN [game |-> s4,
        result |-> [success |-> TRUE, message |-> "Move successful",
                    captured |-> captured_piece,
                    is_check |-> is_in_check(s4, s4.current_turn),
                    status |-> s4.status]]

\* Lines 86-112: the move is executed, recorded, the turn switched and the
\* game-over test run.
AcceptMove(s, from_sq, to_sq, piece_type, piece_color, promotion_piece) ==
    LET ex == _execute_move(s, from_sq, to_sq, piece_type, piece_color, promotion_piece)
        captured_piece == ex[2]
        s1 == [ex[1] EXCEPT !.move_history =
                  Append(@, MoveRecord(from_sq, to_sq, piece_type, captured_piece,
                                       s.fullmove_number))]
        s2 == [s1 EXCEPT !.current_turn = Opponent(s1.current_turn)]
        s3 == IF s2.current_turn = "white"
              THEN [s2 EXCEPT !.fullmove_number = @ + 1]
              ELSE s2
        s4 == _check_game_over(s3)
    IN [game |-> s4,
        result |-> [success |-> TRUE, message |-> "Move successful",
                    captured |-> captured_piece,
                    is_check |-> is_in_check(s4, s4.current_turn),
                    status |-> s4.status]]

\* A make_move that does not ask whose piece stands on the source square.
make_move_of_any_piece(s, from_sq, to_sq, player_id, promotion_piece) ==
    IF \/ (s.current_turn = "white" /\ player_id # s.white_player_id)
       \/ (s.current_turn = "black" /\ player_id # s.black_player_id)
    THEN [game |-> s, result |-> Failure("Not your turn")]
    ELSE IF s.status # "ongoing"
    THEN [game |-> s, result |-> Failure(GameIs[s.status])]
    ELSE IF GridGet(s.grid, from_sq) = None
    THEN [game |-> s, result |-> Failure("No piece at source square")]
    ELSE LET piece_type == s.grid[from_sq][1]
             piece_color == s.grid[from_sq][2]
         IN IF ~_is_valid_move(s, from_sq, to_sq, piece_type, piece_color)
            THEN [game |-> s, result |-> Failure("Invalid move")]
            ELSE LET probe == _would_be_in_check_after_move(s, from_sq, to_sq, piece_color)
                     s1 == [s EXCEPT !.grid = probe[2]]
                 IN IF probe[1]
                    THEN [game |-> s1, result |-> Failure("Move would leave king in check")]
                    ELSE AcceptMove(s1, from_sq, to_sq, piece_type, piece_color,
                                    promotion_piece)

\* [game |-> the engine after the call, result |-> the dict returned]
make_move(s, from_sq, to_sq, player_id, promotion_piece) ==
    IF \/ (s.current_turn = "white" /\ player_id # s.white_player_id)
       \/ (s.current_turn = "black" /\ player_id # s.black_player_id)
    THEN [game |-> s, result |-> Failure("Not your turn")]
    ELSE IF s.status # "ongoing"
    THEN [game |-> s, result |-> Failure(GameIs[s.status])]
    ELSE IF GridGet(s.grid, from_sq) = None
    THEN [game |-> s, result |-> Failure("No piece at source square")]
    ELSE LET piece_type == s.grid[from_sq][1]
             piece_color == s.grid[from_sq][2]
         IN IF piece_color # s.current_turn
            THEN [game |-> s, result |-> Failure("Cannot move opponent's piece")]
            ELSE IF ~_is_valid_move(s, from_sq, to_sq, piece_type, piece_color)
            THEN [game |-> s, result |-> Failure("Invalid move")]
            ELSE LET probe == _would_be_in_check_after_move(s, from_sq, to_sq, piece_color)
                     s1 == [s EXCEPT !.grid = probe[2]]
                 IN IF probe[1]
                    THEN [game |-> s1, result |-> Failure("Move would leave king in check")]
                    ELSE AcceptMove(s1, from_sq, to_sq, piece_type, piece_color,
                                    promotion_piece)

\* ------------------------------------------------------------- Game: resign

\* A resign that does not look at the status.
\* A resignation taken only from the player whose turn it is.
resign_only_on_turn(s, player_id) ==
    IF s.status # "ongoing"
    THEN [game |-> s, result |-> Failure("Game is not ongoing")]
    ELSE IF player_id # (IF s.current_turn = "white" THEN s.white_player_id
                                                      ELSE s.black_player_id)
    THEN [game |-> s, result |-> Failure("Not your turn")]
    ELSE LET w == IF player_id = s.white_player_id THEN "black" ELSE "white"
         IN [game |-> [s EXCEPT !.status = "resignation", !.winner = w],
             result |-> [success |-> TRUE, message |-> "Resignation accepted", winner |-> w]]

resign_whatever_the_status(s, player_id) ==
    LET w == IF player_id = s.white_player_id THEN "black" ELSE "white"
    IN [game |-> [s EXCEPT !.status = "resignation", !.winner = w],
        result |-> [success |-> TRUE, message |-> "Resignation accepted", winner |-> w]]

resign(s, player_id) ==
    IF s.status # "ongoing"
    THEN [game |-> s, result |-> Failure("Game is not ongoing")]
    ELSE LET w == IF player_id = s.white_player_id THEN "black" ELSE "white"
         IN [game |-> [s EXCEPT !.status = "resignation", !.winner = w],
             result |-> [success |-> TRUE, message |-> "Resignation accepted", winner |-> w]]

\* ------------------------------------------------------------------ army.py

TARGET_POINTS == 39
MAX_PAWNS == 8

\* MAJOR_PIECES: four entries, of which BISHOP and KNIGHT are the same member.
MAJOR_PIECES == <<QUEEN, ROOK, BISHOP, KNIGHT>>

Copies(piece, n) == [i \in 1..n |-> piece]

\* The budget left after the first i kinds of the shuffled list took their counts.
RECURSIVE RemainingPoints(_, _, _)
RemainingPoints(order, counts, i) ==
    IF i = 0
    THEN TARGET_POINTS
    ELSE RemainingPoints(order, counts, i - 1) - counts[i] * MemberValue[order[i]]

\* counts[i] is a value random.randint(0, max_possible) can return at step i.
AdmissibleCounts(order, counts) ==
    \A i \in 1..Len(order) :
        /\ counts[i] >= 0
        /\ counts[i] <= RemainingPoints(order, counts, i - 1) \div MemberValue[order[i]]

RECURSIVE MajorsOf(_, _, _)
MajorsOf(order, counts, i) ==
    IF i = 0 THEN <<>>
    ELSE MajorsOf(order, counts, i - 1) \o Copies(order[i], counts[i])

\* A pass accepted only when the budget is overdrawn, which no pass does.
AttemptOverdrawn(order, counts) ==
    RemainingPoints(order, counts, Len(order)) < 0

\* A pass that accepts whatever number of pawns fills the budget.
AttemptAnyPawns(order, counts) ==
    RemainingPoints(order, counts, Len(order)) >= 0

\* One pass of the while loop accepts when the pawns needed are at most MAX_PAWNS.
AttemptAccepted(order, counts) ==
    RemainingPoints(order, counts, Len(order)) <= MAX_PAWNS

\* The army returned when the accepted attempt shuffled MAJOR_PIECES into `order`
\* and drew `counts`.
generate_random_army(order, counts) ==
    MajorsOf(order, counts, Len(order))
        \o Copies(PAWN, RemainingPoints(order, counts, Len(order)))
        \o <<KING>>

\* ----------------------------------------------------------------- board.py

RankSquares(rank) == [i \in 1..BoardSize |-> <<OrdA + i - 1, rank>>]

\* list.remove / list.pop(index): the sequence without its element at index i.
RemoveAt(seq, i) == [j \in 1..(Len(seq) - 1) |-> IF j < i THEN seq[j] ELSE seq[j + 1]]

IndexOf(seq, x) == CHOOSE i \in 1..Len(seq) : seq[i] = x /\ \A j \in 1..(i - 1) : seq[j] # x

\* A placement that leaves the king's square in the list of free back-rank squares.
place_army_over_the_king(grid, army, is_white, king_square) ==
    LET rank_1_squares == RankSquares(IF is_white THEN 1 ELSE 8)
        rank_2_squares == RankSquares(IF is_white THEN 2 ELSE 7)
        rest == RemoveAt(army, IndexOf(army, KING))
        g0 == [grid EXCEPT ![king_square] = <<KING, IF is_white THEN "W" ELSE "B">>]
        color == IF is_white THEN "white" ELSE "black"
        others == SelectSeq(rest, LAMBDA x : x # PAWN)
        pawns == Len(SelectSeq(rest, LAMBDA x : x = PAWN))
    IN [sq \in Squares |->
          IF \E i \in 1..Len(rank_2_squares) : i <= pawns /\ rank_2_squares[i] = sq
          THEN <<PAWN, color>>
          ELSE IF \E i \in 1..Len(rank_1_squares) : i <= Len(others) /\ rank_1_squares[i] = sq
          THEN <<others[IndexOf(rank_1_squares, sq)], color>>
          ELSE g0[sq]]

\* Board.place_army with random.choice returning king_square.
place_army(grid, army, is_white, king_square) ==
    LET rank_1 == IF is_white THEN 1 ELSE 8
        rank_2 == IF is_white THEN 2 ELSE 7
        rest == RemoveAt(army, IndexOf(army, KING))
        g0 == [grid EXCEPT ![king_square] = <<KING, IF is_white THEN "W" ELSE "B">>]
        rank_1_squares == RemoveAt(RankSquares(rank_1), IndexOf(RankSquares(rank_1), king_square))
        rank_2_squares == RankSquares(rank_2)
        color == IF is_white THEN "white" ELSE "black"
        \* army.sort(pawns first) is stable: the other pieces keep their order.
        others == SelectSeq(rest, LAMBDA x : x # PAWN)
        pawns == Len(SelectSeq(rest, LAMBDA x : x = PAWN))
    IN [sq \in Squares |->
          IF \E i \in 1..Len(rank_2_squares) : i <= pawns /\ rank_2_squares[i] = sq
          THEN <<PAWN, color>>
          ELSE IF \E i \in 1..Len(rank_1_squares) : i <= Len(others) /\ rank_1_squares[i] = sq
          THEN <<others[IndexOf(rank_1_squares, sq)], color>>
          ELSE g0[sq]]

\* Board.setup_board: the draws are those of the two generate_random_army calls
\* and of the two random.choice calls.
setup_board(grid, white_draw, white_king, black_draw, black_king) ==
    place_army(
        place_army(grid, generate_random_army(white_draw.order, white_draw.counts),
                   TRUE, white_king),
        generate_random_army(black_draw.order, black_draw.counts), FALSE, black_king)

\* ------------------------------------------------- Game: construction, state

\* Game.__init__
NewGame(white_player_id, black_player_id) ==
    [grid |-> EmptyGrid,
     white_player_id |-> white_player_id,
     black_player_id |-> black_player_id,
     current_turn |-> "white",
     move_history |-> <<>>,
     status |-> "ongoing",
     winner |-> NoneName,
     castling_rights |-> [white |-> [kingside |-> TRUE, queenside |-> TRUE],
                          black |-> [kingside |-> TRUE, queenside |-> TRUE]],
     en_passant_target |-> None,
     halfmove_clock |-> 0,
     fullmove_number |-> 1]

\* Game.start_game
start_game(s, white_draw, white_king, black_draw, black_king) ==
    [s EXCEPT !.grid = setup_board(s.grid, white_draw, white_king, black_draw, black_king)]

\* Game.get_state: the board holds (name, colour) pairs.
get_state(s) ==
    [white_player_id |-> s.white_player_id,
     black_player_id |-> s.black_player_id,
     current_turn |-> s.current_turn,
     board |-> [sq \in DOMAIN s.grid |-> s.grid[sq]],
     move_history |-> s.move_history,
     status |-> s.status,
     winner |-> s.winner,
     castling_rights |-> s.castling_rights,
     en_passant_target |-> s.en_passant_target,
     halfmove_clock |-> s.halfmove_clock,
     fullmove_number |-> s.fullmove_number]

\* A from_state that leaves the winner as the constructor set it.
from_state_without_winner(state) ==
    [NewGame(state.white_player_id, state.black_player_id) EXCEPT
        !.current_turn = state.current_turn,
        !.move_history = state.move_history,
        !.status = state.status,
        !.castling_rights = state.castling_rights,
        !.en_passant_target = state.en_passant_target,
        !.halfmove_clock = state.halfmove_clock,
        !.fullmove_number = state.fullmove_number,
        !.grid = [sq \in Squares |->
                    IF sq \in DOMAIN state.board /\ state.board[sq] # None
                    THEN <<PieceType(state.board[sq][1]), state.board[sq][2]>>
                    ELSE None]]

\* Game.from_state: every piece name is looked up in the enum.
from_state(state) ==
    [NewGame(state.white_player_id, state.black_player_id) EXCEPT
        !.current_turn = state.current_turn,
        !.move_history = state.move_history,
        !.status = state.status,
        !.winner = state.winner,
        !.castling_rights = state.castling_rights,
        !.en_passant_target = state.en_passant_target,
        !.halfmove_clock = state.halfmove_clock,
        !.fullmove_number = state.fullmove_number,
        !.grid = [sq \in Squares |->
                    IF sq \in DOMAIN state.board /\ state.board[sq] # None
                    THEN <<PieceType(state.board[sq][1]), state.board[sq][2]>>
                    ELSE None]]

\* ------------------------------------------------------------------- fen.py

\* A Python str is the sequence of its characters.
AsciiDigits == <<"0", "1", "2", "3", "4", "5", "6", "7", "8", "9">>
AsciiLower == <<"a", "b", "c", "d", "e", "f", "g", "h", "i", "j", "k", "l", "m",
                "n", "o", "p", "q", "r", "s", "t", "u", "v", "w", "x", "y", "z">>
AsciiUpper == <<"A", "B", "C", "D", "E", "F", "G", "H", "I", "J", "K", "L", "M",
                "N", "O", "P", "Q", "R", "S", "T", "U", "V", "W", "X", "Y", "Z">>

Position(chars, char) == CHOOSE i \in 1..Len(chars) : chars[i] = char
Contains(chars, char) == \E i \in 1..Len(chars) : chars[i] = char

isdigit(char) == Contains(AsciiDigits, char)
isupper(char) == Contains(AsciiUpper, char)
lower(char) == IF isupper(char) THEN AsciiLower[Position(AsciiUpper, char)] ELSE char
upper(char) ==
    IF Contains(AsciiLower, char) THEN AsciiUpper[Position(AsciiLower, char)] ELSE char

\* chr and ord on the lower-case letters.
chr(code) == AsciiLower[code - OrdA + 1]
ord(char) == OrdA + Position(AsciiLower, char) - 1

\* int(char) of one decimal digit.
DigitValue(char) == Position(AsciiDigits, char) - 1

\* str(n) of an int that is not negative.
RECURSIVE str(_)
str(n) ==
    IF n < 10 THEN <<AsciiDigits[n + 1]>>
    ELSE str(n \div 10) \o <<AsciiDigits[(n % 10) + 1]>>

RECURSIVE DecimalValue(_)
DecimalValue(chars) ==
    IF chars = <<>> THEN 0
    ELSE 10 * DecimalValue(SubSeq(chars, 1, Len(chars) - 1)) + DigitValue(chars[Len(chars)])

\* int(s): an optional sign and decimal digits; anything else raises ValueError.
int(chars) ==
    LET signed == chars # <<>> /\ chars[1] \in {"-", "+"}
        body == IF signed THEN Tail(chars) ELSE chars
    IN IF body # <<>> /\ \A i \in 1..Len(body) : isdigit(body[i])
       THEN [ok |-> TRUE,
             value |-> IF signed /\ chars[1] = "-" THEN 0 - DecimalValue(body)
                       ELSE DecimalValue(body)]
       ELSE [ok |-> FALSE, value |-> 0]

\* s.split(sep): the pieces between the separators, empty ones included.
RECURSIVE SplitAt(_, _)
SplitAt(chars, sep) ==
    IF ~Contains(chars, sep) THEN <<chars>>
    ELSE LET i == CHOOSE k \in 1..Len(chars) :
                      chars[k] = sep /\ \A j \in 1..(k - 1) : chars[j] # sep
         IN <<SubSeq(chars, 1, i - 1)>> \o SplitAt(SubSeq(chars, i + 1, Len(chars)), sep)

\* s.split(): split at runs of blanks, no empty piece.
split(chars) == SelectSeq(SplitAt(chars, " "), LAMBDA part : part # <<>>)

\* '/'.join(rows)
RECURSIVE join(_, _)
join(sep, rows) ==
    IF rows = <<>> THEN <<>>
    ELSE IF Len(rows) = 1 THEN rows[1]
    ELSE rows[1] \o <<sep>> \o join(sep, Tail(rows))

\* The name of a square, 'e3', and the square a name stands for; a string that
\* names no square stays the string it is.
SquareName(sq) == <<chr(sq[1]), AsciiDigits[sq[2] + 1]>>
SquareNamed(chars) ==
    IF /\ Len(chars) = 2
       /\ Contains(SubSeq(AsciiLower, 1, BoardSize), chars[1])
       /\ Contains(SubSeq(AsciiDigits, 2, BoardSize + 1), chars[2])
    THEN <<ord(chars[1]), DigitValue(chars[2])>>
    ELSE chars

\* The items of the dict display PIECE_TO_FEN, in the order written.
PIECE_TO_FEN_ITEMS ==
    << <<PAWN, "p">>, <<KNIGHT, "n">>, <<BISHOP, "b">>,
       <<ROOK, "r">>, <<QUEEN, "q">>, <<KING, "k">> >>

\* PIECE_TO_FEN[piece_type]: of two items with the same key the later one stays.
PIECE_TO_FEN(piece_type) ==
    LET last_item == CHOOSE i \in 1..Len(PIECE_TO_FEN_ITEMS) :
                        /\ PIECE_TO_FEN_ITEMS[i][1] = piece_type
                        /\ \A j \in (i + 1)..Len(PIECE_TO_FEN_ITEMS) :
                              PIECE_TO_FEN_ITEMS[j][1] # piece_type
    IN PIECE_TO_FEN_ITEMS[last_item][2]

\* FEN_TO_PIECE.get(piece_char): the dict holds v: k for the items of
\* PIECE_TO_FEN; None for a letter that is no value of it.
FEN_TO_PIECE(piece_char) ==
    LET keys == {PIECE_TO_FEN_ITEMS[i][1] : i \in 1..Len(PIECE_TO_FEN_ITEMS)}
    IN IF \E k \in keys : PIECE_TO_FEN(k) = piece_char
       THEN CHOOSE k \in keys : PIECE_TO_FEN(k) = piece_char
       ELSE NoneName

\* One rank of the placement field, from column col on.
RECURSIVE FenRow(_, _, _, _)
FenRow(grid, row, col, empty_count) ==
    LET pending == IF empty_count > 0 THEN str(empty_count) ELSE <<>>
    IN IF col = BoardSize THEN pending
       ELSE LET piece_data == GridGet(grid, <<OrdA + col, row + 1>>)
            IN IF piece_data = None
               THEN FenRow(grid, row, col + 1, empty_count + 1)
               ELSE pending
                    \o <<IF piece_data[2] = "white"
                         THEN upper(PIECE_TO_FEN(piece_data[1]))
                         ELSE PIECE_TO_FEN(piece_data[1])>>
                    \o FenRow(grid, row, col + 1, 0)

board_to_fen(grid, current_turn, castling_rights, en_passant_target, halfmove_clock, fullmove_number) ==
    LET position == join("/", [i \in 1..BoardSize |-> FenRow(grid, BoardSize - i, 0, 0)])
        active_color == IF current_turn = "white" THEN "w" ELSE "b"
        flags == (IF castling_rights.white.kingside THEN <<"K">> ELSE <<>>)
                 \o (IF castling_rights.white.queenside THEN <<"Q">> ELSE <<>>)
                 \o (IF castling_rights.black.kingside THEN <<"k">> ELSE <<>>)
                 \o (IF castling_rights.black.queenside THEN <<"q">> ELSE <<>>)
        castling == IF flags = <<>> THEN <<"-">> ELSE flags
        en_passant == IF en_passant_target # None THEN SquareName(en_passant_target)
                      ELSE <<"-">>
    IN position \o <<" ", active_color, " ">> \o castling \o <<" ">> \o en_passant
       \o <<" ">> \o str(halfmove_clock) \o <<" ">> \o str(fullmove_number)

\* The squares one row of the placement field writes, in order.
RECURSIVE RowWrites(_, _, _)
RowWrites(row_fen, row, col) ==
    IF row_fen = <<>> THEN <<>>
    ELSE LET char == Head(row_fen)
         IN IF isdigit(char)
            THEN RowWrites(Tail(row_fen), row, col + DigitValue(char))
            ELSE <<[square |-> <<OrdA + col, row + 1>>,
                    piece |-> <<FEN_TO_PIECE(lower(char)),
                                IF isupper(char) THEN "white" ELSE "black">>]>>
                 \o RowWrites(Tail(row_fen), row, col + 1)

RECURSIVE PlacementWrites(_, _)
PlacementWrites(rows, row_idx) ==
    IF row_idx >= Len(rows) THEN <<>>
    ELSE RowWrites(rows[row_idx + 1], BoardSize - 1 - row_idx, 0)
         \o PlacementWrites(rows, row_idx + 1)

\* What a call that raises leaves the caller with.
Raised(exception) == [error |-> exception]

\* fen_to_board: the six values returned, or the exception raised.
fen_to_board(fen) ==
    LET parts == split(fen)
        writes == PlacementWrites(SplitAt(parts[1], "/"), 0)
        written == {writes[i].square : i \in 1..Len(writes)}
        grid == [sq \in Squares \cup written |->
                    IF sq \in written
                    THEN writes[CHOOSE i \in 1..Len(writes) :
                                   /\ writes[i].square = sq
                                   /\ \A j \in (i + 1)..Len(writes) : writes[j].square # sq].piece
                    ELSE None]
        halfmove == IF Len(parts) > 4 THEN int(parts[5]) ELSE [ok |-> TRUE, value |-> 0]
        fullmove == IF Len(parts) > 5 THEN int(parts[6]) ELSE [ok |-> TRUE, value |-> 1]
    IN IF Len(parts) < 4 THEN Raised("IndexError")
       ELSE IF ~halfmove.ok \/ ~fullmove.ok THEN Raised("ValueError")
       ELSE [error |-> NoneName,
             grid |-> grid,
             current_turn |-> IF parts[2] = <<"w">> THEN "white" ELSE "black",
             castling_rights |->
                 [white |-> [kingside |-> Contains(parts[3], "K"),
                             queenside |-> Contains(parts[3], "Q")],
                  black |-> [kingside |-> Contains(parts[3], "k"),
                             queenside |-> Contains(parts[3], "q")]],
             en_passant_target |-> IF parts[4] # <<"-">> THEN SquareNamed(parts[4]) ELSE None,
             halfmove_clock |-> halfmove.value,
             fullmove_number |-> fullmove.value]

\* ---------------------------------------------------------------- scenarios

File == [a |-> OrdA, b |-> OrdA + 1, c |-> OrdA + 2, d |-> OrdA + 3,
         e |-> OrdA + 4, f |-> OrdA + 5, g |-> OrdA + 6, h |-> OrdA + 7]
Sq(letter, digit) == <<File[letter], digit>>

WhiteId == "player1"
BlackId == "player2"
\* An identity that plays neither side.
OtherId == "player3"
Players == {WhiteId, BlackId, OtherId}

PlayerToMove(s) == IF s.current_turn = "white" THEN s.white_player_id ELSE s.black_player_id

\* The engine after the side to move made each move of `moves` in turn; a move
\* is <<from, to, promotion>>.  The sequence is played half by half; once the
\* game is over every further move is rejected and nothing is left to play.
RECURSIVE Play(_, _)
Play(s, moves) ==
    IF moves = <<>>
    THEN s
    ELSE IF Len(moves) = 1
    THEN make_move(s, moves[1][1], moves[1][2], PlayerToMove(s), moves[1][3]).game
    ELSE LET half == Len(moves) \div 2
             mid == Play(s, SubSeq(moves, 1, half))
         IN IF mid.status # "ongoing"
            THEN mid
            ELSE Play(mid, SubSeq(moves, half + 1, Len(moves)))

Move(from_letter, from_digit, to_letter, to_digit) ==
    <<Sq(from_letter, from_digit), Sq(to_letter, to_digit), NoneName>>

\* Outcomes of the random draws of generate_random_army: the shuffled order of
\* MAJOR_PIECES and the count drawn for each entry.
DrawKnightRooks == [order |-> <<KNIGHT, ROOK, QUEEN, BISHOP>>, counts |-> <<1, 6, 0, 0>>]
DrawQueensKnight == [order |-> <<QUEEN, KNIGHT, ROOK, BISHOP>>, counts |-> <<4, 1, 0, 0>>]
DrawRooksKnights == [order |-> <<ROOK, KNIGHT, QUEEN, BISHOP>>, counts |-> <<6, 3, 0, 0>>]
Draws == {DrawKnightRooks, DrawQueensKnight, DrawRooksKnights}

\* The draw is one the generator can make and accept.
ValidDraw(d) ==
    /\ Len(d.order) = Len(MAJOR_PIECES)
    /\ \E perm \in [1..Len(MAJOR_PIECES) -> 1..Len(MAJOR_PIECES)] :
          /\ \A i, j \in 1..Len(MAJOR_PIECES) : i # j => perm[i] # perm[j]
          /\ \A i \in 1..Len(MAJOR_PIECES) : d.order[i] = MAJOR_PIECES[perm[i]]
    /\ AdmissibleCounts(d.order, d.counts)
    /\ AttemptAccepted(d.order, d.counts)

\* start_game: white K a1, N b1, R c1-h1, pawns a2-f2; black N a8, R b8-g8,
\* K h8, pawns a7-f7.  The g and h files are open: the rook on h1 attacks the
\* king on h8, whose flight squares g7 and h7 the rooks on g1 and h1 attack.
FreshOpenFiles ==
    start_game(NewGame(WhiteId, BlackId), DrawKnightRooks, Sq("a", 1), DrawKnightRooks, Sq("h", 8))

\* start_game: white Q a1-d1, N e1, K h1; black R a8-f8, N g8, K h8 (two of
\* the nine pieces drawn find no square); no pawns.
FreshNoPawns ==
    start_game(NewGame(WhiteId, BlackId), DrawQueensKnight, Sq("h", 1), DrawRooksKnights, Sq("h", 8))

\* Black takes the four queens while the white knight goes to and fro.
LosingTheQueens ==
    << Move("e", 1, "f", 3), Move("a", 8, "a", 1), Move("f", 3, "e", 1), Move("b", 8, "b", 1),
       Move("e", 1, "f", 3), Move("c", 8, "c", 1), Move("f", 3, "e", 1), Move("d", 8, "d", 1),
       Move("e", 1, "f", 3) >>

\* The white a-pawn goes to a5 and the black b-pawn passes it with b7-b5.
PassingTheAPawn ==
    << Move("a", 2, "a", 4), Move("g", 8, "g", 7), Move("a", 4, "a", 5), Move("b", 7, "b", 5) >>

\* The white a-pawn goes to b7, from where it takes on a8 or c8.
PawnToTheSeventh ==
    << Move("a", 2, "a", 4), Move("g", 8, "g", 7), Move("a", 4, "a", 5), Move("g", 7, "g", 8),
       Move("a", 5, "a", 6), Move("g", 8, "g", 7), Move("a", 6, "b", 7), Move("g", 7, "g", 8) >>

\* A snapshot handed to from_state: white K a1; black K b3, Q h2; white to move.
QueenEndingSnapshot ==
    [white_player_id |-> WhiteId,
     black_player_id |-> BlackId,
     current_turn |-> "white",
     board |-> [sq \in Squares |->
                  IF sq = Sq("a", 1) THEN <<"KING", "white">>
                  ELSE IF sq = Sq("b", 3) THEN <<"KING", "black">>
                  ELSE IF sq = Sq("h", 2) THEN <<"QUEEN", "black">>
                  ELSE None],
     move_history |-> <<>>,
     status |-> "ongoing",
     winner |-> NoneName,
     castling_rights |-> [white |-> [kingside |-> FALSE, queenside |-> FALSE],
                          black |-> [kingside |-> FALSE, queenside |-> FALSE]],
     en_passant_target |-> None,
     halfmove_clock |-> 0,
     fullmove_number |-> 1]

\* A snapshot handed to from_state: white K e1, R a1, R h1; black K e8, R a8,
\* pawn e2; white to move, every castling right held.  The pawn attacks d1 and f1.
CastlingSnapshot ==
    [QueenEndingSnapshot EXCEPT
       !.board = [sq \in Squares |->
                    IF sq = Sq("e", 1) THEN <<"KING", "white">>
                    ELSE IF sq \in {Sq("a", 1), Sq("h", 1)} THEN <<"ROOK", "white">>
                    ELSE IF sq = Sq("e", 8) THEN <<"KING", "black">>
                    ELSE IF sq = Sq("a", 8) THEN <<"ROOK", "black">>
                    ELSE IF sq = Sq("e", 2) THEN <<"PAWN", "black">>
                    ELSE None],
       !.castling_rights = [white |-> [kingside |-> TRUE, queenside |-> TRUE],
                            black |-> [kingside |-> TRUE, queenside |-> TRUE]]]

\* Two rooks leave their corners and come back.
\* A snapshot handed to from_state: white K e1, R a1, R h1; black K e8, N g3;
\* white to move, every castling right still there.
CornerRaidSnapshot ==
    [CastlingSnapshot EXCEPT
       !.board = [sq \in Squares |->
                    IF sq = Sq("e", 1) THEN <<"KING", "white">>
                    ELSE IF sq \in {Sq("a", 1), Sq("h", 1)} THEN <<"ROOK", "white">>
                    ELSE IF sq = Sq("e", 8) THEN <<"KING", "black">>
                    ELSE IF sq = Sq("g", 3) THEN <<"KNIGHT", "black">>
                    ELSE None]]

\* The black knight takes the rook that never left h1.
KnightTakesTheCorner ==
    << Move("a", 1, "b", 1), Move("g", 3, "h", 1) >>

RooksOutAndBack ==
    << Move("h", 1, "h", 2), Move("a", 8, "a", 7), Move("h", 2, "h", 1), Move("a", 7, "a", 8) >>

\* King and queen going to and fro: the position repeats every four plies.
ToAndFro ==
    << Move("a", 1, "b", 1), Move("h", 2, "h", 7), Move("b", 1, "a", 1), Move("h", 7, "h", 2) >>
Repeated(cycle, n) == [i \in 1..n |-> cycle[((i - 1) % Len(cycle)) + 1]]

\* Each behaviour starts from `start` after the moves `moves` were made, and
\* explores `depth` calls from there.
Scenarios ==
    { [start |-> FreshOpenFiles, moves |-> <<>>,
       started |-> "start_game", depth |-> MaxCalls - 1],
      [start |-> FreshOpenFiles, moves |-> <<Move("a", 2, "a", 3)>>,
       started |-> "start_game", depth |-> MaxCalls - 1],
      [start |-> FreshNoPawns, moves |-> LosingTheQueens,
       started |-> "start_game", depth |-> MaxCalls - 1],
      [start |-> FreshOpenFiles, moves |-> PassingTheAPawn,
       started |-> "start_game", depth |-> MaxCalls - 1],
      [start |-> FreshOpenFiles, moves |-> PawnToTheSeventh,
       started |-> "start_game", depth |-> MaxCalls - 1],
      [start |-> from_state(CastlingSnapshot), moves |-> <<>>,
       started |-> "from_state", depth |-> MaxCalls - 1],
      [start |-> from_state(CastlingSnapshot), moves |-> RooksOutAndBack,
       started |-> "from_state", depth |-> MaxCalls - 1],
      [start |-> from_state(CastlingSnapshot), moves |-> <<Move("a", 1, "b", 1)>>,
       started |-> "from_state", depth |-> MaxCalls - 1],
      [start |-> from_state(CornerRaidSnapshot), moves |-> KnightTakesTheCorner,
       started |-> "from_state", depth |-> MaxCalls - 1],
      [start |-> from_state(QueenEndingSnapshot), moves |-> Repeated(ToAndFro, 2),
       started |-> "from_state", depth |-> MaxCalls],
      [start |-> from_state(QueenEndingSnapshot),
       moves |-> Repeated(ToAndFro, FiftyMoveLimit - 2),
       started |-> "from_state", depth |-> MaxCalls],
      [start |-> from_state(QueenEndingSnapshot),
       moves |-> Repeated(ToAndFro, FiftyMoveLimit - 2) \o <<Move("b", 1, "a", 1)>>,
       started |-> "from_state", depth |-> MaxCalls] }

\* ------------------------------------------------------------ state machine

VARIABLES
    grid,               \* Game.board.grid
    white_player_id,
    black_player_id,
    current_turn,
    move_history,
    status,
    winner,
    castling_rights,
    en_passant_target,
    halfmove_clock,
    fullmove_number,
    started,            \* how the game began: "start_game" or "from_state"
    calls_left,         \* calls still explored
    last,               \* the last call: who called, the dict returned and the
                        \* move it made (None if it made none), or NoCall
    army,               \* what a running generate_random_army returned, None before
    retries,            \* passes of its while loop that ended in a retry
    db_game,            \* the row of the games table, None before create_game
    db_moves,           \* the rows of the moves table, in the order committed
    cache,              \* the value under the key game:<id>, None when absent
    requests            \* the requests being served: where each one is and
                        \* what it holds in its local variables

vars == <<grid, white_player_id, black_player_id, current_turn, move_history, status,
          winner, castling_rights, en_passant_target, halfmove_clock, fullmove_number,
          started, calls_left, last, army, retries, db_game, db_moves, cache, requests>>

service == <<db_game, db_moves, cache, requests>>

\* No game was created in the service.
NoService ==
    /\ db_game = None
    /\ db_moves = <<>>
    /\ cache = None
    /\ requests = <<>>

engine == <<grid, white_player_id, black_player_id, current_turn, move_history, status,
            winner, castling_rights, en_passant_target, halfmove_clock, fullmove_number>>

NoCall == [op |-> "none"]

\* The Game object the variables hold.
Self ==
    [grid |-> grid,
     white_player_id |-> white_player_id,
     black_player_id |-> black_player_id,
     current_turn |-> current_turn,
     move_history |-> move_history,
     status |-> status,
     winner |-> winner,
     castling_rights |-> castling_rights,
     en_passant_target |-> en_passant_target,
     halfmove_clock |-> halfmove_clock,
     fullmove_number |-> fullmove_number]

Holds(s) ==
    /\ grid = s.grid
    /\ white_player_id = s.white_player_id
    /\ black_player_id = s.black_player_id
    /\ current_turn = s.current_turn
    /\ move_history = s.move_history
    /\ status = s.status
    /\ winner = s.winner
    /\ castling_rights = s.castling_rights
    /\ en_passant_target = s.en_passant_target
    /\ halfmove_clock = s.halfmove_clock
    /\ fullmove_number = s.fullmove_number

Becomes(s) ==
    /\ grid' = s.grid
    /\ white_player_id' = s.white_player_id
    /\ black_player_id' = s.black_player_id
    /\ current_turn' = s.current_turn
    /\ move_history' = s.move_history
    /\ status' = s.status
    /\ winner' = s.winner
    /\ castling_rights' = s.castling_rights
    /\ en_passant_target' = s.en_passant_target
    /\ halfmove_clock' = s.halfmove_clock
    /\ fullmove_number' = s.fullmove_number

Init ==
    /\ (\A d \in Draws : ValidDraw(d)) = TRUE
    /\ \E sc \in Scenarios :
        /\ Holds(Play(sc.start, sc.moves))
        /\ started = sc.started
        /\ calls_left = sc.depth
        /\ last = NoCall
        /\ army = None
        /\ retries = 0
        /\ NoService

\* Squares a caller can name: the board and two strings off it.
OffBoard == {<<OrdA + BoardSize, 1>>, <<OrdA, BoardSize + 1>>}
InputSquares == Squares \cup OffBoard

Promotions == {NoneName, QUEEN, ROOK, BISHOP, KNIGHT}

\* Promotion kinds with the king among them.
PromotionNamesWithKing == {NoneName, "QUEEN", "ROOK", "BISHOP", "KNIGHT", "KING"}

\* The kinds a caller can name for a promotion, and the member each name gives:
\* PieceType[promotion_piece].
PromotionNames == {NoneName, "QUEEN", "ROOK", "BISHOP", "KNIGHT"}

PromotionOf(name) == IF name = NoneName THEN NoneName ELSE PieceType(name)

\* make_move returns before it reads to_sq (lines 58-76).
ReturnsBeforeDestination(s, from_sq, player_id) ==
    \/ player_id # PlayerToMove(s)
    \/ s.status # "ongoing"
    \/ GridGet(s.grid, from_sq) = None
    \/ s.grid[from_sq][2] # s.current_turn

\* promotion_piece is read only for a pawn that ends on its last rank (lines 305-308).
ReadsPromotion(s, from_sq, to_sq) ==
    /\ GridGet(s.grid, from_sq) # None
    /\ s.grid[from_sq][1] = PAWN
    /\ to_sq[2] \in {1, BoardSize}

\* A call that returns before reading to_sq or promotion_piece returns the same
\* for each of their values: one value stands for all.
MakeMove ==
    /\ calls_left > 0
    /\ \E player_id \in Players, from_sq \in InputSquares :
      \E to_sq \in IF ReturnsBeforeDestination(Self, from_sq, player_id)
                   THEN {from_sq} ELSE InputSquares :
        \E promotion_name \in IF ReadsPromotion(Self, from_sq, to_sq)
                              THEN PromotionNames ELSE {NoneName} :
          LET r == make_move(Self, from_sq, to_sq, player_id, PromotionOf(promotion_name))
          IN /\ Becomes(r.game)
             /\ calls_left' = calls_left - 1
             /\ last' = [op |-> "make_move", player |-> player_id, result |-> r.result,
                          made |-> IF r.result.success
                                   THEN <<from_sq, to_sq, promotion_name>>
                                   ELSE None]
             /\ UNCHANGED <<started, army, retries, service>>

Resign ==
    /\ calls_left > 0
    /\ \E player_id \in Players :
        LET r == resign(Self, player_id)
        IN /\ Becomes(r.game)
           /\ calls_left' = calls_left - 1
           /\ last' = [op |-> "resign", player |-> player_id, result |-> r.result]
           /\ UNCHANGED <<started, army, retries, service>>

Next == MakeMove \/ Resign

Spec == Init /\ [][Next]_vars

\* ---------------------------------------- state machine: generate_random_army

\* A call of generate_random_army on its own: no game is started.
ArmyInit ==
    /\ Holds(NewGame(WhiteId, BlackId))
    /\ started = "no"
    /\ calls_left = 0
    /\ last = NoCall
    /\ army = None
    /\ retries = 0
    /\ NoService

\* random.shuffle(MAJOR_PIECES): the orders the list can be left in.
Shuffles ==
    { <<MAJOR_PIECES[p[1]], MAJOR_PIECES[p[2]], MAJOR_PIECES[p[3]], MAJOR_PIECES[p[4]]>> :
        p \in {q \in [1..4 -> 1..4] : \A i, j \in 1..4 : i # j => q[i] # q[j]} }

\* One pass of the loop: the shuffle and the four random.randint draws, each
\* between 0 and what the points left can pay.
Passes ==
    UNION { UNION { UNION { UNION { { [order |-> order, counts |-> <<c1, c2, c3, c4>>] :
        c4 \in 0..(RemainingPoints(order, <<c1, c2, c3>>, 3) \div MemberValue[order[4]]) } :
        c3 \in 0..(RemainingPoints(order, <<c1, c2>>, 2) \div MemberValue[order[3]]) } :
        c2 \in 0..(RemainingPoints(order, <<c1>>, 1) \div MemberValue[order[2]]) } :
        c1 \in 0..(TARGET_POINTS \div MemberValue[order[1]]) } :
        order \in Shuffles }

\* The back rank random.choice picks the king's square from.
BackRank(is_white) == {RankSquares(IF is_white THEN 1 ELSE 8)[i] : i \in 1..BoardSize}

\* The boards with white's army placed from which the model goes on to black's
\* army: every white setup is explored, and black's setups on these.
WhiteSetupsContinued ==
    { place_army(EmptyGrid, generate_random_army(DrawKnightRooks.order, DrawKnightRooks.counts),
                 TRUE, Sq("a", 1)),
      place_army(EmptyGrid, generate_random_army(DrawRooksKnights.order, DrawRooksKnights.counts),
                 TRUE, Sq("e", 1)) }

\* setup_board calls generate_random_army for white on the empty board and
\* for black once white's army stands.
Generating ==
    /\ started = "no"
    /\ army = None
    /\ grid = EmptyGrid \/ grid \in WhiteSetupsContinued

\* The passes that break the loop, the passes that make it run again, and the
\* armies the former return.
AcceptedPasses ==
    {pass \in Passes : /\ AdmissibleCounts(pass.order, pass.counts)
                       /\ AttemptAccepted(pass.order, pass.counts)}
RetriedPasses ==
    {pass \in Passes : /\ AdmissibleCounts(pass.order, pass.counts)
                       /\ ~AttemptAccepted(pass.order, pass.counts)}
ReturnedArmies ==
    {generate_random_army(pass.order, pass.counts) : pass \in AcceptedPasses}

\* A pass that needs at most MAX_PAWNS pawns: the loop breaks and the army is returned.
AttemptReturns ==
    /\ Generating
    /\ \E returned \in ReturnedArmies : army' = returned
    /\ UNCHANGED <<engine, started, calls_left, last, retries, service>>

\* A pass that needs more pawns: the loop runs again.
AttemptRetries ==
    /\ Generating
    /\ retries < MaxRetries
    /\ RetriedPasses # {}
    /\ retries' = retries + 1
    /\ UNCHANGED <<engine, started, calls_left, last, army, service>>

\* setup_board places the army just returned: white's on the empty board, then
\* black's, with random.choice picking the king's square.
PlaceArmy ==
    /\ started = "no"
    /\ army # None
    /\ \E king_square \in BackRank(grid = EmptyGrid) :
          grid' = place_army(grid, army, grid = EmptyGrid, king_square)
    /\ started' = IF grid = EmptyGrid THEN "no" ELSE "start_game"
    /\ army' = None
    /\ retries' = 0
    /\ UNCHANGED <<white_player_id, black_player_id, current_turn, move_history, status,
                   winner, castling_rights, en_passant_target, halfmove_clock,
                   fullmove_number, calls_left, last, service>>

ArmyNext == AttemptReturns \/ AttemptRetries \/ PlaceArmy

ArmySpec == ArmyInit /\ [][ArmyNext]_vars

\* One call of generate_random_army under fair random choices: a pass that random.shuffle and random.randint can draw
\* again and again is drawn at some time, so the loop does not retry for ever
\* while a pass that breaks it can be drawn.
GenerateNext == AttemptReturns \/ AttemptRetries

FairArmySpec == ArmyInit /\ [][GenerateNext]_vars /\ WF_vars(AttemptReturns)

\* ------------------------------------------------ state machine: fen_to_board

\* Ranks of a placement field.
EmptyRank == <<"8">>
RankOfPawns(char) == [i \in 1..BoardSize |-> char]

\* The fields FEN strings are put together from: well-formed ones, a letter no
\* piece has, a rank that is too long, a placement of two ranks, and clocks that
\* are no numbers.
PlacementFields ==
    { join("/", [i \in 1..BoardSize |-> EmptyRank]),
      join("/", <<<<"4", "k", "3">>, RankOfPawns("p"), EmptyRank, EmptyRank, EmptyRank,
                  EmptyRank, RankOfPawns("P"), <<"R", "B", "B", "Q", "K", "B", "B", "R">>>>),
      join("/", <<<<"k", "x", "6">>, EmptyRank, EmptyRank, EmptyRank, EmptyRank,
                  EmptyRank, EmptyRank, <<"K", "N", "6">>>>),
      join("/", <<<<"9", "K">>, EmptyRank>>) }
ColourFields == {<<"w">>, <<"b">>}
CastlingFields == {<<"-">>, <<"K", "Q", "k", "q">>}
EnPassantFields == {<<"-">>, <<"e", "3">>}
HalfmoveFields == {<<"0">>, <<"1", "2">>, <<"x">>}
FullmoveFields == {<<"1">>, <<"7">>, <<"-">>}

\* The strings handed to fen_to_board: the first n of seven fields, joined by
\* blanks.
FenInputs ==
    { join(" ", SubSeq(<<placement, colour, castling, en_passant, halfmove, fullmove,
                         <<"0">>>>, 1, n)) :
        placement \in PlacementFields, colour \in ColourFields,
        castling \in CastlingFields, en_passant \in EnPassantFields,
        halfmove \in HalfmoveFields, fullmove \in FullmoveFields, n \in 0..7 }

\* A call of fen_to_board on its own: no game is started.
FenInit ==
    /\ Holds(NewGame(WhiteId, BlackId))
    /\ started = "no"
    /\ calls_left = 0
    /\ last = NoCall
    /\ army = None
    /\ retries = 0
    /\ NoService

\* fen_to_board(fen): the call and what it returned or raised.
Decode ==
    /\ started = "no"
    /\ last = NoCall
    /\ \E fen \in FenInputs :
          last' = [op |-> "fen_to_board", fen |-> fen, result |-> fen_to_board(fen)]
    /\ UNCHANGED <<engine, started, calls_left, army, retries, service>>

FenNext == Decode

FenSpec == FenInit /\ [][FenNext]_vars

\* ------------------------------------------ state machine: the service layer

\* Requests served at the same time for the one game created.
MaxRequests == 2
Requests == 1..MaxRequests

\* UUID(hex): the identities of the players are the strings of UUIDs
\* (create_game passes str(white_player_id)); any other string raises.
UUID(hex) == IF hex \in Players THEN hex ELSE "ValueError"

\* create_game: the row committed for the Game object `game` it made and
\* started.
create_game(game) ==
    LET initial_state == get_state(game)
    IN [white_player_id |-> game.white_player_id,
        black_player_id |-> game.black_player_id,
        initial_setup_json |-> initial_state,
        current_state_json |-> initial_state,
        status |-> "ongoing",
        winner_id |-> NoneName]

\* A request not yet received.
Idle ==
    [pc |-> "idle", kind |-> NoneName, player_id |-> NoneName, move |-> None,
     loaded |-> None, game |-> None, result |-> None, raised |-> NoneName]

\* What the clients send: moves of either player, on turn and out of turn, and
\* resignations of the white player and of a user who plays neither side.
ServiceMoves == {Move("a", 2, "a", 3), Move("b", 2, "b", 4), Move("a", 7, "a", 6)}
ServiceInputs ==
    {[kind |-> "make_move", player_id |-> p, move |-> m] :
        p \in {WhiteId, BlackId}, m \in ServiceMoves}
    \cup {[kind |-> "resign", player_id |-> p, move |-> None] : p \in {WhiteId, OtherId}}

\* The game was created: start_game drew the board of FreshOpenFiles, the row
\* is committed and its snapshot cached.
ServiceInit ==
    /\ Holds(FreshOpenFiles)
    /\ started = "start_game"
    /\ calls_left = 0
    /\ last = NoCall
    /\ army = None
    /\ retries = 0
    /\ db_game = create_game(Self)
    /\ db_moves = <<>>
    /\ cache = db_game.current_state_json
    /\ requests = [r \in Requests |-> Idle]

\* The request after load_game returned Game.from_state(req.loaded) and the
\* engine was called on it: game.make_move in the service, game_obj.resign in
\* the route.  A call the engine refuses is answered at once.
Attempt(req) ==
    LET game == from_state(req.loaded)
        call == IF req.kind = "make_move"
                THEN make_move(game, req.move[1], req.move[2], req.player_id,
                               PromotionOf(req.move[3]))
                ELSE resign(game, req.player_id)
    IN [req EXCEPT !.game = call.game,
                   !.result = call.result,
                   !.pc = IF ~call.result.success THEN "done"
                          ELSE IF req.kind = "make_move" THEN "moved" ELSE "resigned"]

\* load_game, hot path: get_cached_game_state finds the snapshot.
CacheHit ==
    /\ \E r \in Requests, input \in ServiceInputs :
          /\ requests[r].pc = "idle"
          /\ cache # None
          /\ requests' = [requests EXCEPT ![r] =
                [Idle EXCEPT !.kind = input.kind, !.player_id = input.player_id,
                             !.move = input.move, !.loaded = cache, !.pc = "loaded"]]
    /\ UNCHANGED <<engine, started, calls_left, last, army, retries, db_game, db_moves, cache>>

\* load_game, cold path: get_cached_game_state finds nothing.
CacheMiss ==
    /\ \E r \in Requests, input \in ServiceInputs :
          /\ requests[r].pc = "idle"
          /\ cache = None
          /\ requests' = [requests EXCEPT ![r] =
                [Idle EXCEPT !.kind = input.kind, !.player_id = input.player_id,
                             !.move = input.move, !.pc = "miss"]]
    /\ UNCHANGED <<engine, started, calls_left, last, army, retries, db_game, db_moves, cache>>

\* load_game, cold path: the query reads the row of the game.
DbLoad ==
    /\ \E r \in Requests :
          /\ requests[r].pc = "miss"
          /\ requests' = [requests EXCEPT ![r].pc = "to_cache",
                                          ![r].loaded = db_game.current_state_json]
    /\ UNCHANGED <<engine, started, calls_left, last, army, retries, db_game, db_moves, cache>>

\* load_game, cold path: cache_game_state stores the snapshot that was read.
CacheFill ==
    /\ \E r \in Requests :
          /\ requests[r].pc = "to_cache"
          /\ cache' = requests[r].loaded
          /\ requests' = [requests EXCEPT ![r].pc = "loaded"]
    /\ UNCHANGED <<engine, started, calls_left, last, army, retries, db_game, db_moves>>

\* The caller of load_game goes on with the game it was given.
CallEngine ==
    /\ \E r \in Requests :
          /\ requests[r].pc = "loaded"
          /\ requests' = [requests EXCEPT ![r] = Attempt(requests[r])]
    /\ UNCHANGED <<engine, started, calls_left, last, army, retries, db_game, db_moves, cache>>

\* The Move row make_move adds for an accepted move.
move_record(req) ==
    [move_number |-> req.game.fullmove_number,
     color |-> req.game.current_turn,
     from_square |-> req.move[1],
     to_square |-> req.move[2],
     piece_type |-> req.game.move_history[Len(req.game.move_history)].piece,
     captured_piece |-> req.result.captured,
     is_check |-> req.result.is_check,
     is_checkmate |-> (req.result.status = "checkmate")]

\* make_move after an accepted move: the row of the move, the new snapshot and
\* the status are committed in one transaction, which writes over whatever
\* another request committed since this one loaded the game.  UUID(game.winner)
\* raises for a finished game with a winner, and nothing is committed.
\* update_elo_ratings stands behind that call on every path and changes rows
\* of the users table only.
CommitMove ==
    /\ \E r \in Requests :
          /\ requests[r].pc = "moved"
          /\ LET game == requests[r].game
                 completed == game.status \in {"checkmate", "stalemate", "draw"}
                 winner_id == IF game.winner # NoneName THEN UUID(game.winner) ELSE NoneName
             IN IF completed /\ winner_id = "ValueError"
                THEN /\ requests' = [requests EXCEPT ![r].pc = "done",
                                                     ![r].raised = "ValueError"]
                     /\ UNCHANGED <<db_game, db_moves>>
                ELSE /\ db_moves' = Append(db_moves, move_record(requests[r]))
                     /\ db_game' = [db_game EXCEPT
                                       !.current_state_json = get_state(game),
                                       !.status = game.status,
                                       !.winner_id = IF completed THEN winner_id ELSE @]
                     /\ requests' = [requests EXCEPT ![r].pc = "committed"]
    /\ UNCHANGED <<engine, started, calls_left, last, army, retries, cache>>

\* make_move after the commit: cache_game_state stores the new snapshot, the
\* update is published and the response returned.
CacheWrite ==
    /\ \E r \in Requests :
          /\ requests[r].pc = "committed"
          /\ cache' = get_state(requests[r].game)
          /\ requests' = [requests EXCEPT ![r].pc = "done"]
    /\ UNCHANGED <<engine, started, calls_left, last, army, retries, db_game, db_moves>>

\* resign_game after an accepted resignation: the status and the winner are
\* set on the row and committed; UUID(game_obj.winner) raises before the
\* commit for a winner that is no UUID.  Snapshot and cache are not written.
CommitResignation ==
    /\ \E r \in Requests :
          /\ requests[r].pc = "resigned"
          /\ LET winner_id == UUID(requests[r].game.winner)
             IN IF winner_id = "ValueError"
                THEN /\ requests' = [requests EXCEPT ![r].pc = "done",
                                                     ![r].raised = "ValueError"]
                     /\ UNCHANGED db_game
                ELSE /\ db_game' = [db_game EXCEPT !.status = "resignation",
                                                   !.winner_id = winner_id]
                     /\ requests' = [requests EXCEPT ![r].pc = "done"]
    /\ UNCHANGED <<engine, started, calls_left, last, army, retries, db_moves, cache>>

\* The time to live that setex gave the key runs out.
Expire ==
    /\ cache # None
    /\ cache' = None
    /\ UNCHANGED <<engine, started, calls_left, last, army, retries, db_game, db_moves,
                   requests>>

ServiceNext ==
    \/ CacheHit \/ CacheMiss \/ DbLoad \/ CacheFill \/ CallEngine
    \/ CommitMove \/ CacheWrite \/ CommitResignation \/ Expire

ServiceSpec == ServiceInit /\ [][ServiceNext]_vars

\* ------------------------------------------------------------------ properties

\* The last call was a make_move that returned success.
AfterMove == last.op = "make_move" /\ last.result.success

Finished == {"checkmate", "stalemate", "resignation", "draw"}

\* C1: status only ever goes from ongoing to checkmate, stalemate, resignation
\* or draw; once it is not ongoing, every make_move and resign call is rejected
\* and nothing of the engine (status, winner, board, turn, castling rights,
\* en-passant target, clocks, move history) changes again.
TerminalIsFinal ==
    [][ /\ status' # status => (status = "ongoing" /\ status' \in Finished)
        /\ status # "ongoing" => (~last'.result.success /\ UNCHANGED engine) ]_vars

\* A make_move by the player to move is turned down because the game is over.
MoveAfterTheEnd ==
    /\ status \in Finished
    /\ last.op = "make_move"
    /\ last.result = Failure(GameIs[status])

\* C2: a make_move that returns success=False leaves the whole engine as it
\* was: the 64 squares, turn, castling rights, en-passant target, both clocks,
\* move history, status and winner; the check probe writes back both squares.
RejectedMoveChangesNothing ==
    [][ (last'.op = "make_move" /\ ~last'.result.success) => UNCHANGED engine ]_vars

\* A move is turned down by the check probe, after the probe wrote on both squares.
RejectedForCheck ==
    /\ last.op = "make_move"
    /\ last.result = Failure("Move would leave king in check")

\* The position with each king counted among the pieces of its side: place_army
\* tags the kings 'W' and 'B', the other pieces 'white' and 'black'.
OwnKings(s) ==
    [s EXCEPT !.grid = [sq \in Squares |->
        IF s.grid[sq] = <<KING, "W">> THEN <<KING, "white">>
        ELSE IF s.grid[sq] = <<KING, "B">> THEN <<KING, "black">>
        ELSE s.grid[sq]]]

\* A piece of the other side attacks the king of `color`.
KingAttacked(color) == is_in_check(OwnKings(Self), color)

\* `color` has no move that is geometrically legal and keeps its king out of check.
NoMove(color) == ~has_legal_move(OwnKings(Self), color)

\* C3: after a successful make_move in a game started with start_game, no
\* opposing piece attacks the king of the side that just moved.
MoverKingSafe ==
    (AfterMove /\ started = "start_game") => ~KingAttacked(Opponent(current_turn))

\* C4: after a successful make_move in a game started with start_game, if the
\* side now to move has no legal move, its king is attacked and the halfmove
\* clock is below 100, then status is checkmate and the winner is the mover.
CheckmateDeclared ==
    ( /\ AfterMove
      /\ started = "start_game"
      /\ halfmove_clock < 100
      /\ KingAttacked(current_turn)
      /\ NoMove(current_turn) )
    => (status = "checkmate" /\ winner = Opponent(current_turn))

\* C5: after a successful make_move, status is stalemate exactly when the side
\* now to move has no legal move, its king is not attacked and the halfmove clock
\* is below 100, and then winner is unset; if that side has a legal move and
\* the clock is below 100, status is ongoing.
StalemateExactly ==
    AfterMove =>
        /\ status = "stalemate" <=>
              (halfmove_clock < 100 /\ ~KingAttacked(current_turn) /\ NoMove(current_turn))
        /\ status = "stalemate" => winner = NoneName
        /\ (halfmove_clock < 100 /\ ~NoMove(current_turn)) => status = "ongoing"

\* C6: after a successful make_move that brings the halfmove clock to 100 the
\* status is draw, whatever is on the board; status is never draw while the
\* halfmove clock is below 100.
FiftyMoveDraw ==
    /\ (AfterMove /\ halfmove_clock = 100) => status = "draw"
    /\ status = "draw" => halfmove_clock >= 100

\* The hundredth quiet ply was played, with the side to move still able to move.
HundredthQuietPly ==
    /\ AfterMove
    /\ halfmove_clock = 100
    /\ status = "draw"
    /\ has_legal_move(Self, current_turn)

\* C7: when the game-over test finds the side to move without a legal move
\* (mate or stalemate) and the halfmove clock at 100, the status is draw, not
\* checkmate or stalemate.
DrawOverridesMate ==
    (AfterMove /\ halfmove_clock >= 100 /\ ~has_legal_move(Self, current_turn))
    => status = "draw"

\* The hundredth quiet ply mates.
MateOnHundredthPly ==
    /\ AfterMove
    /\ halfmove_clock = 100
    /\ ~has_legal_move(Self, current_turn)
    /\ is_in_check(Self, current_turn)
    /\ status = "draw"

\* The player whose colour is to move.
Mover == IF current_turn = "white" THEN white_player_id ELSE black_player_id

\* C8: a new game has white to move, each successful make_move is made by the
\* side to move and gives the turn to the other colour, and nothing else
\* (a rejected make_move, a resign) changes current_turn: the movers of the
\* successful moves are white, black, white, ...
TurnsAlternate ==
    /\ [](current_turn = IF Len(move_history) % 2 = 0 THEN "white" ELSE "black")
    /\ [][ IF last'.op = "make_move" /\ last'.result.success
            THEN last'.player = Mover /\ current_turn' = Opponent(current_turn)
            ELSE current_turn' = current_turn ]_vars

\* Black answered a white move: the turn is white's again.
BlackAnswered ==
    /\ AfterMove
    /\ last.player = black_player_id
    /\ current_turn = "white"
    /\ Len(move_history) >= 2

\* C9: fullmove_number starts at 1, goes up by exactly 1 on each successful
\* move of black and is unchanged by a successful white move, a rejected move
\* and a resign: after n successful moves it is 1 + floor(n/2).
FullmoveCounts ==
    /\ [](fullmove_number = 1 + Len(move_history) \div 2)
    /\ [][ fullmove_number' =
              IF last'.op = "make_move" /\ last'.result.success /\ current_turn = "black"
              THEN fullmove_number + 1
              ELSE fullmove_number ]_vars

\* A black move completed a full move; a white move did not.
FullmoveAdvanced ==
    /\ AfterMove
    /\ Len(move_history) >= 2
    /\ move_history[Len(move_history)].move_number + 1 = fullmove_number
    /\ move_history[Len(move_history) - 1].move_number
          = move_history[Len(move_history)].move_number

\* C10: a successful make_move sets the halfmove clock to 0 if the piece moved
\* is a pawn or the move captures a piece, and to its previous value plus 1
\* otherwise; a rejected move and a resign leave it unchanged.
HalfmoveClock ==
    [][ halfmove_clock' =
          IF last'.op = "make_move" /\ last'.result.success
          THEN IF grid[last'.made[1]][1] = "PAWN" \/ grid[last'.made[2]] # None
               THEN 0
               ELSE halfmove_clock + 1
          ELSE halfmove_clock ]_vars

\* A piece other than a pawn captured, and the running clock went back to 0.
CaptureRestartedClock ==
    /\ AfterMove
    /\ halfmove_clock = 0
    /\ last.result.captured # NoneName
    /\ move_history[Len(move_history)].piece # "PAWN"
    /\ Len(move_history) >= 2
    /\ move_history[Len(move_history) - 1].piece # "PAWN"
    /\ move_history[Len(move_history) - 1].captured = NoneName

\* C11: make_move succeeds only for the player whose side is to move and only
\* with a piece of that side; any other identity gets 'Not your turn', and a
\* call naming a square that holds a piece of the other side is rejected.
OnlyTheMoverMovesOwnPieces ==
    /\ [](\A from_sq \in {sq \in Squares : grid[sq] # None /\ grid[sq][2] # current_turn} :
            \A to_sq \in Squares :
                ~make_move(Self, from_sq, to_sq, Mover, NoneName).result.success)
    /\ [][ last'.op = "make_move" =>
            /\ last'.player # Mover => last'.result = Failure("Not your turn")
            /\ last'.result.success =>
                  (last'.player = Mover /\ grid[last'.made[1]][2] = current_turn) ]_vars

\* The player to move named a square holding a piece of the other side.
OpponentPieceRefused ==
    /\ last.op = "make_move"
    /\ last.player = Mover
    /\ last.result = Failure("Cannot move opponent's piece")

\* C12: after a successful make_move the en-passant target is the square the
\* pawn skipped if the move was a pawn's two-square advance from its start
\* rank, and none after any other move: a target lasts one ply.
EnPassantTargetOnePly ==
    [][ (last'.op = "make_move" /\ last'.result.success) =>
          LET from_sq == last'.made[1]
              to_sq == last'.made[2]
              start_rank == IF current_turn = "white" THEN 2 ELSE 7
              ahead == IF current_turn = "white" THEN 1 ELSE -1
          IN en_passant_target' =
               IF /\ grid[from_sq][1] = "PAWN"
                  /\ from_sq[2] = start_rank
                  /\ to_sq = <<from_sq[1], start_rank + 2 * ahead>>
               THEN <<from_sq[1], start_rank + ahead>>
               ELSE None ]_vars

\* The ply after a double step was played, and the target is gone.
TargetGoneAfterOnePly ==
    /\ AfterMove
    /\ Len(move_history) >= 2
    /\ LET before == move_history[Len(move_history) - 1]
       IN before.piece = "PAWN" /\ Abs(before.to[2] - before.from[2]) = 2
    /\ en_passant_target = None

\* C13: when a pawn has just advanced two squares and an enemy pawn moves
\* diagonally forward onto the en-passant target, the move succeeds and the
\* pawn that made the double step leaves the board: its square is empty.
EnPassantRemovesThePawn ==
    [][ ( /\ last'.op = "make_move"
          /\ last'.result.success
          /\ grid[last'.made[1]][1] = "PAWN"
          /\ last'.made[2] = en_passant_target
          /\ last'.made[2][1] # last'.made[1][1] )
        => grid'[<<last'.made[2][1], last'.made[1][2]>>] = None ]_vars

\* A piece of `by_color` could capture on the square: the square is attacked.
Attacked(square, by_color) ==
    _is_square_attacked(
        [Self EXCEPT !.grid[square] = IF @ = None THEN <<"PAWN", Opponent(by_color)>> ELSE @],
        square, by_color)

\* The colour that made the i-th move of the history: white made the first.
ColourOfPly(i) == IF i % 2 = 1 THEN "white" ELSE "black"

\* The king on `king_sq` or a rook from the file `corner_file` moved before.
MovedBefore(king_sq, corner_file) ==
    \E i \in 1..Len(move_history) :
        /\ ColourOfPly(i) = current_turn
        /\ \/ move_history[i].piece = "KING"
           \/ (move_history[i].piece = "ROOK" /\ move_history[i].from[1] = corner_file)

CastlingRightsOnlyFall ==
    [][ /\ \A color \in {"white", "black"}, side \in {"kingside", "queenside"} :
              castling_rights'[color][side] => castling_rights[color][side]
        /\ castling_rights' =
              IF last'.op = "make_move" /\ last'.result.success
              THEN LET from_sq == last'.made[1]
                       piece == grid[from_sq][1]
                   IN IF piece = "KING"
                      THEN [castling_rights EXCEPT
                              ![current_turn] = [kingside |-> FALSE, queenside |-> FALSE]]
                      ELSE IF piece = "ROOK" /\ from_sq[1] = Sq("a", 1)[1]
                      THEN [castling_rights EXCEPT ![current_turn].queenside = FALSE]
                      ELSE IF piece = "ROOK" /\ from_sq[1] = Sq("h", 1)[1]
                      THEN [castling_rights EXCEPT ![current_turn].kingside = FALSE]
                      ELSE castling_rights
              ELSE castling_rights ]_vars

\* A king move took both flags of its side; the other side still has one.
KingMoveTookBothFlags ==
    /\ AfterMove
    /\ move_history[Len(move_history)].piece = "KING"
    /\ castling_rights[Opponent(current_turn)] = [kingside |-> FALSE, queenside |-> FALSE]
    /\ castling_rights[current_turn].kingside

\* The last rank of a colour: 8 for white, 1 for black.
LastRank(color) == IF color = "white" THEN 8 ELSE 1

\* C16: when a pawn's successful move ends on its last rank, the destination
\* then holds a piece of the promotion kind given, a queen when none is given,
\* in the mover's colour; so no pawn stands on its own last rank.
PromotionGivesTheKindAsked ==
    /\ [](\A sq \in Squares :
            (grid[sq] # None /\ grid[sq][1] = "PAWN" /\ grid[sq][2] \in {"white", "black"})
            => sq[2] # LastRank(grid[sq][2]))
    /\ [][ ( /\ last'.op = "make_move"
              /\ last'.result.success
              /\ grid[last'.made[1]][1] = "PAWN"
              /\ last'.made[2][2] = LastRank(current_turn) )
            => grid'[last'.made[2]] =
                 << IF last'.made[3] = NoneName THEN "QUEEN" ELSE last'.made[3],
                    current_turn >> ]_vars

\* The move from_sq-to_sq runs along a diagonal over empty squares.
AlongClearDiagonal(from_sq, to_sq) ==
    LET files == to_sq[1] - from_sq[1]
        ranks == to_sq[2] - from_sq[2]
    IN /\ files # 0
       /\ Abs(files) = Abs(ranks)
       /\ \A k \in 1..(Abs(files) - 1) :
              grid[<<from_sq[1] + k * (files \div Abs(files)),
                     from_sq[2] + k * (ranks \div Abs(ranks))>>] = None

\* C17: BISHOP is a kind of its own, not KNIGHT, and a bishop's move is
\* geometrically legal exactly when it runs along a diagonal whose squares in
\* between are empty (and does not end on a piece of its own colour); an
\* L-shaped move of a bishop is an invalid move.
BishopsMoveOnDiagonals ==
    /\ PieceType("BISHOP") # PieceType("KNIGHT")
    /\ \A from_sq \in {sq \in Squares : grid[sq] # None /\ grid[sq][1] = PieceType("BISHOP")} :
         \A to_sq \in Squares :
            _is_valid_move(Self, from_sq, to_sq, grid[from_sq][1], grid[from_sq][2])
            <=> ( /\ AlongClearDiagonal(from_sq, to_sq)
                  /\ (grid[to_sq] = None \/ grid[to_sq][2] # grid[from_sq][2]) )

\* The squares holding a king of the side, under either of the tags the side's
\* pieces carry.
KingSquares(side) ==
    {sq \in Squares : /\ grid[sq] # None
                      /\ grid[sq][1] = "KING"
                      /\ grid[sq][2] \in (IF side = "white" THEN {"white", "W"}
                                                             ELSE {"black", "B"})}

\* C18: in a game started by start_game and advanced by make_move, with
\* promotion to queen, rook, bishop or knight only, the board holds at most
\* one king of each side.
AtMostOneKingEach ==
    started = "start_game" =>
        \A side \in {"white", "black"} : Cardinality(KingSquares(side)) <= 1

\* A pawn was promoted in a game started by start_game; each side has its king.
PromotedBesideTheKings ==
    /\ started = "start_game"
    /\ AfterMove
    /\ move_history[Len(move_history)].piece = "PAWN"
    /\ last.made[2][2] = LastRank(Opponent(current_turn))
    /\ \A side \in {"white", "black"} : Cardinality(KingSquares(side)) = 1

\* C19: after start_game and after any make_move calls, the colour of every
\* occupied square, the kings' included, is one of the two values current_turn
\* takes, 'white' and 'black'.
TwoColoursOnly ==
    started = "start_game" =>
        \A sq \in Squares : grid[sq] # None => grid[sq][2] \in {"white", "black"}

\* The members of a list that are `piece`.
CountOf(pieces, piece) == Cardinality({i \in 1..Len(pieces) : pieces[i] = piece})

\* The values of the members of a list that are not the king, added up.
RECURSIVE PointsWithoutKing(_)
PointsWithoutKing(pieces) ==
    IF pieces = <<>> THEN 0
    ELSE (IF Head(pieces) = KING THEN 0 ELSE MemberValue[Head(pieces)])
            + PointsWithoutKing(Tail(pieces))

\* C20: every army generate_random_army returns, whatever the shuffle and the
\* draws were and however many passes were retried, is worth exactly 39 points
\* without its king, has at most 8 pawns and has exactly one king.
ArmyIsThirtyNine ==
    army # None =>
        /\ PointsWithoutKing(army) = 39
        /\ CountOf(army, PAWN) <= 8
        /\ CountOf(army, KING) = 1

\* An army returned after a retried pass, with all eight pawns.
EightPawnsAfterRetry ==
    /\ army # None
    /\ retries > 0
    /\ CountOf(army, PAWN) = 8

\* C21: every army generate_random_army returns has at most 16 pieces, its
\* king included.
ArmyFitsSixteenSquares ==
    army # None => Len(army) <= 16

\* A step in which setup_board places the army just generated.
Placing == army # None /\ army' = None

\* The squares a step wrote.
Written == {sq \in Squares : grid'[sq] # grid[sq]}

Least(a, b) == IF a < b THEN a ELSE b

\* C22: setup never puts two pieces on one square. A placement writes only
\* empty squares, as many as it places pieces (the king, the pawns up to the
\* eight squares of the second rank, the others up to the seven of the back rank
\* beside the king): one king on the side's back rank, pawns on its second rank,
\* the others on its back rank. After setup white stands only on ranks 1-2,
\* black only on ranks 7-8, one king on rank 1 and one on rank 8, and ranks 3-6
\* are empty.
SetupOnePiecePerSquare ==
    /\ [](started = "start_game" =>
            /\ \A sq \in Squares :
                  /\ sq[2] \in 3..6 => grid[sq] = None
                  /\ (grid[sq] # None /\ grid[sq][2] = "white") => sq[2] \in {1, 2}
                  /\ (grid[sq] # None /\ grid[sq][2] = "black") => sq[2] \in {7, 8}
                  /\ (grid[sq] # None /\ grid[sq][1] = KING) => sq[2] \in {1, 8}
            /\ \A rank \in {1, 8} :
                  Cardinality({sq \in Squares : sq[2] = rank /\ grid[sq] # None
                                                /\ grid[sq][1] = KING}) = 1)
    /\ [][ Placing =>
            LET rank_1 == IF grid = EmptyGrid THEN 1 ELSE 8
                rank_2 == IF grid = EmptyGrid THEN 2 ELSE 7
            IN /\ \A sq \in Written :
                     /\ grid[sq] = None
                     /\ sq[2] = (IF grid'[sq][1] = PAWN THEN rank_2 ELSE rank_1)
               /\ Cardinality({sq \in Written : grid'[sq][1] = KING}) = 1
               /\ Cardinality(Written)
                     = 1 + Least(CountOf(army, PAWN), BoardSize)
                         + Least(Len(army) - CountOf(army, PAWN) - 1, BoardSize - 1) ]_vars

\* Setup is over with black on every square of ranks 7 and 8.
BlackFillsBothRanks ==
    /\ started = "start_game"
    /\ army = None
    /\ \A sq \in Squares : sq[2] \in {7, 8} => grid[sq] # None

\* C23: a placement puts the whole army on the board: the squares it writes are
\* as many as the army has pieces, king included, or 16 if the army has more.
PlacementDropsNoPiece ==
    [][ Placing => Cardinality(Written) = Least(Len(army), 2 * BoardSize) ]_vars

\* C24: a resignation made while the game is ongoing succeeds, whoever's turn
\* it is: the status becomes resignation, the winner is the side the resigning
\* player does not play, and the board, the turn, the castling rights, the
\* en-passant target, both clocks and the history stay as they were.
ResignEndsTheGame ==
    [][ (last'.op = "resign" /\ status = "ongoing") =>
            /\ last'.result.success
            /\ status' = "resignation"
            /\ last'.player = white_player_id => winner' = "black"
            /\ last'.player = black_player_id => winner' = "white"
            /\ last'.result.winner = winner'
            /\ UNCHANGED <<grid, current_turn, castling_rights, en_passant_target,
                           halfmove_clock, fullmove_number, move_history,
                           white_player_id, black_player_id>> ]_vars

\* Black resigned after a move of its own, with white to move.
BlackResignedOutOfTurn ==
    /\ last.op = "resign"
    /\ last.result.success
    /\ last.player = black_player_id
    /\ current_turn = "white"
    /\ move_history # <<>>
    /\ status = "resignation"
    /\ winner = "white"

\* C25: in every state of a game begun by start_game, whatever moves and
\* resignations followed, the engine from_state builds from get_state() gives
\* the same snapshot again, field by field: the players, the turn, the status,
\* the winner, the castling rights, the en-passant target, both clocks, the
\* history and the occupant of each of the 64 squares.
SnapshotRoundTrip ==
    started = "start_game" =>
        LET original == get_state(Self)
            again == get_state(from_state(original))
        IN /\ DOMAIN again = DOMAIN original
           /\ \A field \in DOMAIN original : again[field] = original[field]
           /\ DOMAIN again.board = Squares
           /\ \A sq \in Squares : again.board[sq] = grid[sq]

\* A start_game game resigned right after a double pawn step: a winner and an
\* en-passant target to carry through the snapshot.
ResignedWithTargetSet ==
    /\ started = "start_game"
    /\ status = "resignation"
    /\ winner # NoneName
    /\ en_passant_target # None
    /\ move_history # <<>>

\* What fen_to_board makes of the FEN string of the current position.
DecodedAgain ==
    fen_to_board(board_to_fen(grid, current_turn, castling_rights, en_passant_target,
                              halfmove_clock, fullmove_number))

\* C26: in every state of a game begun by start_game, decoding the FEN string
\* of the position gives back the six values it was made from: the same kind
\* and colour on each of the 64 squares, the same turn, castling rights,
\* en-passant target and clocks.
FenRoundTrip ==
    started = "start_game" =>
        /\ DecodedAgain.error = NoneName
        /\ DOMAIN DecodedAgain.grid = Squares
        /\ \A sq \in Squares : DecodedAgain.grid[sq] = grid[sq]
        /\ DecodedAgain.current_turn = current_turn
        /\ DecodedAgain.castling_rights = castling_rights
        /\ DecodedAgain.en_passant_target = en_passant_target
        /\ DecodedAgain.halfmove_clock = halfmove_clock
        /\ DecodedAgain.fullmove_number = fullmove_number

\* The letters of the six kinds of piece, in lower case.
PieceLetters == {"p", "n", "b", "r", "q", "k"}

\* The characters of a placement field that are neither digits, nor the
\* separator of ranks, nor the letter of a piece in either case.
UnknownLetters(placement) ==
    {placement[i] : i \in 1..Len(placement)}
        \ ({AsciiDigits[d] : d \in 1..Len(AsciiDigits)} \cup {"/"}
           \cup PieceLetters \cup {upper(letter) : letter \in PieceLetters})

\* C27: fen_to_board reports an error for a placement field with a character
\* that is no digit and no piece letter, and never returns a grid in which a
\* square holds an occupant without a kind.
UnknownLetterRejected ==
    (last.op = "fen_to_board" /\ split(last.fen) # <<>>
        /\ UnknownLetters(split(last.fen)[1]) # {}) =>
            last.result.error # NoneName

\* C28: fen_to_board reports an error for every string that is not made of
\* exactly six fields separated by blanks; it does not fill in missing clocks.
FieldCountChecked ==
    (last.op = "fen_to_board" /\ Len(split(last.fen)) # 6) =>
        last.result.error # NoneName

\* C29: the history is append-only. An accepted make_move appends one record
\* at the end: the two squares, the kind of the piece that moved, the kind it
\* captured or none, and the fullmove number the move was made in; the earlier
\* records stay as they were. A rejected move and a resignation append nothing.
\* So a game begun by start_game has as many records as moves were accepted,
\* which the turn and the fullmove number count.
HistoryAppendOnly ==
    /\ [](started = "start_game" =>
            Len(move_history) = 2 * (fullmove_number - 1)
                                + (IF current_turn = "black" THEN 1 ELSE 0))
    /\ [][ IF last'.op = "make_move" /\ last'.result.success
           THEN /\ Len(move_history') = Len(move_history) + 1
                /\ SubSeq(move_history', 1, Len(move_history)) = move_history
                /\ move_history'[Len(move_history')] =
                      [from |-> last'.made[1],
                       to |-> last'.made[2],
                       piece |-> grid[last'.made[1]][1],
                       captured |-> IF grid[last'.made[2]] = None THEN NoneName
                                    ELSE grid[last'.made[2]][1],
                       move_number |-> fullmove_number]
           ELSE move_history' = move_history ]_vars

\* Black's capture was recorded behind the records of the earlier moves.
CaptureRecordedLast ==
    /\ last.op = "make_move"
    /\ last.result.success
    /\ current_turn = "white"
    /\ Len(move_history) > 2
    /\ move_history[Len(move_history)].captured # NoneName

\* C30: under fair random choices a running generate_random_army returns an
\* army: the loop reaches a pass that needs at most 8 pawns.
GenerationReturns == Generating ~> (army # None)

\* An army returned after as many retried passes as the model follows.
ReturnedAfterEveryRetry ==
    /\ army # None
    /\ retries = MaxRetries

\* An accepted move of a king two files along its rank.
Castled ==
    /\ last'.op = "make_move"
    /\ last'.result.success
    /\ grid[last'.made[1]][1] = KING
    /\ last'.made[1][2] = last'.made[2][2]
    /\ Abs(last'.made[2][1] - last'.made[1][1]) = 2

\* C31: an accepted castling move takes a rook of the mover's colour from the
\* corner of the castling side to the square the king crossed and the king to
\* the destination asked for, two files from its start; it is never accepted
\* when that corner holds no rook of the mover's colour, and it moves or
\* removes no other piece.
CastlingMovesKingAndRook ==
    [][ Castled =>
          LET from_sq == last'.made[1]
              to_sq == last'.made[2]
              corner == <<IF to_sq[1] > from_sq[1] THEN OrdA + BoardSize - 1 ELSE OrdA,
                          from_sq[2]>>
              crossed == <<(from_sq[1] + to_sq[1]) \div 2, from_sq[2]>>
          IN /\ grid[corner] = <<ROOK, current_turn>>
             /\ grid'[to_sq] = grid[from_sq]
             /\ grid'[crossed] = grid[corner]
             /\ grid'[corner] = None
             /\ grid'[from_sq] = None
             /\ \A sq \in Squares \ {from_sq, to_sq, corner, crossed} :
                   grid'[sq] = grid[sq] ]_vars

\* The side a colour tag belongs to.
SideOf(tag) == IF tag \in {"white", "W"} THEN "white" ELSE "black"

\* C32: no accepted move takes a king or a piece of the mover's own side, so in
\* a game begun by start_game each side has exactly one king after every
\* sequence of moves.
NoKingIsTaken ==
    /\ [](started = "start_game" =>
            \A side \in {"white", "black"} : Cardinality(KingSquares(side)) = 1)
    /\ [][ (last'.op = "make_move" /\ last'.result.success
              /\ grid[last'.made[2]] # None) =>
                /\ grid[last'.made[2]][1] # KING
                /\ SideOf(grid[last'.made[2]][2]) # current_turn ]_vars

\* C33: in every reachable state the winner is set exactly when the status is
\* checkmate or resignation; it is unset while the game is ongoing and when it
\* ended in stalemate or in a draw, also a draw declared by the evaluation that
\* found the side to move mated.
WinnerMatchesStatus ==
    (winner # NoneName) <=> (status \in {"checkmate", "resignation"})

\* C34: a resignation by an identity that plays neither side is rejected,
\* and leaves the status ongoing and the winner unset.
StrangerCannotResign ==
    [][ (/\ last'.op = "resign"
         /\ last'.player \notin {white_player_id, black_player_id}
         /\ status = "ongoing")
        => (/\ ~last'.result.success
            /\ status' = "ongoing"
            /\ winner' = NoneName) ]_vars

\* The letters of a decoded placement field that name a kind of piece, in
\* lower case.
LettersDecoded == {lower(split(last.fen)[1][i]) : i \in 1..Len(split(last.fen)[1])} \cap PieceLetters

\* C35: the FEN letters p, n, b, r, q, k and the six kinds of piece correspond
\* one to one: each of the letters, in either case, decodes to a kind that is
\* written back as the same letter; the letter n decodes to a knight and the
\* knight is written n, so a decoded grid holds as many knights as the
\* placement field holds letters n and N.
FenLettersBijective ==
    (last.op = "fen_to_board" /\ last.result.error = NoneName) =>
        /\ \A letter \in LettersDecoded :
              /\ FEN_TO_PIECE(letter) # NoneName
              /\ PIECE_TO_FEN(FEN_TO_PIECE(letter)) = letter
        /\ "n" \in LettersDecoded => FEN_TO_PIECE("n") = KNIGHT /\ PIECE_TO_FEN(KNIGHT) = "n"
        /\ Cardinality({sq \in DOMAIN last.result.grid :
                           /\ last.result.grid[sq] # None
                           /\ last.result.grid[sq][1] = KNIGHT})
           = Cardinality({i \in 1..Len(split(last.fen)[1]) : lower(split(last.fen)[1][i]) = "n"})

\* A make_move request of the service is being served.
MoveInProgress ==
    \E r \in Requests : requests[r].kind = "make_move" /\ requests[r].pc \notin {"idle", "done"}

\* C36: the cache is coherent. Whenever no make_move request of the service
\* is in progress, the snapshot cached for the game, if there is one, is the
\* current_state_json persisted for it, however the requests interleave.
CacheCoherent ==
    (~MoveInProgress /\ cache # None) => cache = db_game.current_state_json

\* Request r is a make_move of the service that committed its move.
Committed(r) ==
    /\ requests[r].kind = "make_move"
    /\ requests[r].pc \in {"committed", "done"}
    /\ requests[r].result.success
    /\ requests[r].raised = NoneName

\* C37: no update is lost. Two make_move requests that loaded the same
\* snapshot do not both succeed; the moves table holds as many rows as the
\* move_history of the persisted snapshot has entries; and the colours of
\* the rows alternate.
NoLostUpdate ==
    /\ \A r, q \in Requests :
          (r # q /\ Committed(r) /\ Committed(q)) => requests[r].loaded # requests[q].loaded
    /\ Len(db_moves) = Len(db_game.current_state_json.move_history)
    /\ \A i \in 1..(Len(db_moves) - 1) : db_moves[i].color # db_moves[i + 1].color

\* The engine accepted the resignation of a request of the resign route, and
\* the request is over.
Resigned ==
    \E r \in Requests :
        requests[r].kind = "resign" /\ requests[r].pc = "done" /\ requests[r].result.success

\* C38: a resignation through the resign route is durable. Once resign has
\* succeeded, the persisted snapshot and the cached one have the status
\* resignation, and a make_move request that loads the game afterwards is
\* given a game that is over, so its move is rejected.
ResignationDurable ==
    /\ [](Resigned =>
            /\ db_game.current_state_json.status = "resignation"
            /\ (cache # None => cache.status = "resignation"))
    /\ [][ \A q \in Requests :
              (/\ Resigned
               /\ requests[q].loaded = None
               /\ requests'[q].loaded # None
               /\ requests'[q].kind = "make_move")
              => requests'[q].loaded.status = "resignation" ]_vars

\* C39: when the engine ends the game with a winner, the service completes
\* the request and persists the terminal status with the winner_id of the
\* player who owns the winning colour.
WinnerPersisted ==
    \A r \in Requests :
        (/\ requests[r].pc = "done"
         /\ requests[r].result.success
         /\ requests[r].game.winner # NoneName)
        => /\ requests[r].raised = NoneName
           /\ db_game.status = requests[r].game.status
           /\ db_game.winner_id = IF requests[r].game.winner = "white"
                                  THEN db_game.white_player_id
                                  ELSE db_game.black_player_id

====
